---- MODULE Spec2Model ----
(***************************************************************************)
(* A model of the crystallographic symmetry code: SpaceGroup (operator     *)
(* list, closure check, decomposition, mutating operations) and            *)
(* CrystalLattice (periodic minimum-image distance).                       *)
(*                                                                         *)
(* Numbers.  The program computes in doubles.  The model works on a grid:  *)
(* a fractional coordinate is an integer count of 1/One of a cell edge, a  *)
(* rotation matrix has integer entries.  On that grid the tolerance        *)
(* comparison nearly_equal coincides with equality.                        *)
(***************************************************************************)
EXTENDS Integers, Sequences, FiniteSets, TLC

VARIABLES
    \* ---- SpaceGroup object and its caller
    sg_pc,                              \* "off" | "new" | "constructed" | "failed"
    sg_input,                           \* the operator list the caller is about to hand to the constructor
    sg_error,                           \* "" or the message of the exception raised
    sg_last,                            \* the last member function that ran
    symmetry_operators_,
    representative_symmetry_operators_,
    centring_vectors_,
    has_inversion_,
    has_inversion_at_origin_,
    position_of_inversion_,
    \* ---- CrystalLattice::shortest_distance2 call frame
    sd_pc,                              \* "off" | "idle" | "loop" | "done" | "compared"
    lattice,                            \* the lattice: its three basis vectors
    sd_lhs, sd_rhs,                     \* the two fractional positions
    difference_vector,
    shortest_distance2_,
    shortest_distance_changed,
    sd_offset,                          \* position in the three nested loops: 0 .. 26, 27 past the last
    sd_passes,                          \* do-while passes run so far
    sd_related,                         \* results of the related calls
    \* ---- the caller of SpaceGroup::crystal_system
    cs_result,                          \* "" or what the last call returned ("error" when it threw)
    pg_rotations,                       \* <<>> or the rotations point_group handed to PointGroup
    \* ---- a CrystalLattice made from its six cell parameters
    cl_pc,                              \* "off" | "new" | "constructed"
    cl_cell,                            \* the constructor's arguments: a, b, c, alpha, beta, gamma
    lattice_system_,
    \* ---- a caller of find_match and of the two RMSCD functions
    fm_pc,                              \* "off" | "called" | "returned" | "failed" | "crashed"
    fm_function,                        \* "" or the function that ran
    fm_lhs, fm_rhs,                     \* the two CrystalStructure arguments
    fm_arguments,                       \* shift_steps, add_inversion, correct_floating_axes, add_shifts
    integer_shifts,                     \* the caller's vector, find_match's output argument
    fm_votes,                           \* find_match: per reference atom, what it voted for
    fm_result,                          \* "" or the value returned
    fm_error,                           \* "" or the message of the exception
    \* ---- a caller of same_symmetry_operators
    ss_pc,                              \* "off" | "called" | "returned"
    ss_lhs, ss_rhs,                     \* the operator lists of the two SpaceGroup arguments
    ss_result,                          \* "" or the value returned
    \* ---- a CrystalStructure
    xs_pc,                              \* "off" | "ready"
    xs_last,                            \* "" or the member function that ran last
    xs_error,                           \* "" or the message of the exception it threw
    atoms_,
    suppressed_,
    crystal_lattice_,
    space_group_,
    space_group_symmetry_has_been_applied_,
    xs_supercell                        \* <<>> or what supercell was called with and on

sgVars == <<sg_pc, sg_input, sg_error, sg_last, symmetry_operators_,
            representative_symmetry_operators_, centring_vectors_,
            has_inversion_, has_inversion_at_origin_, position_of_inversion_>>

latVars == <<sd_pc, lattice, sd_lhs, sd_rhs, difference_vector, shortest_distance2_,
             shortest_distance_changed, sd_offset, sd_passes, sd_related>>

csVars == <<cs_result, pg_rotations>>

clVars == <<cl_pc, cl_cell, lattice_system_>>

fmVars == <<fm_pc, fm_function, fm_lhs, fm_rhs, fm_arguments, integer_shifts, fm_votes,
            fm_result, fm_error>>

ssVars == <<ss_pc, ss_lhs, ss_rhs, ss_result>>

xsVars == <<xs_pc, xs_last, xs_error, atoms_, suppressed_, crystal_lattice_, space_group_,
            space_group_symmetry_has_been_applied_, xs_supercell>>

\* what a SpaceGroup member function leaves alone
nonSG == <<latVars, csVars, clVars, fmVars, ssVars, xsVars>>

\* what a CrystalLattice member function leaves alone
nonLat == <<sgVars, csVars, clVars, fmVars, ssVars, xsVars>>

vars == <<sgVars, latVars, csVars, clVars, fmVars, ssVars, xsVars>>

(***************************************************************************)
(* Bounds of the model.                                                    *)
(***************************************************************************)
\* longest operator list handed to the constructor
MaxOps == 3

\* longest operator list a SpaceGroup may grow to (add_inversion_at_origin doubles it)
MaxLen == 8

\* fixed-point scale: fractional coordinates of symmetry operators are counted in quarters
One == 2 * 2

(***************************************************************************)
(* Vector3D / Matrix3D arithmetic (the numeric primitives library).        *)
(***************************************************************************)
Vector3D(x, y, z) == <<x, y, z>>

zero_vector == Vector3D(0, 0, 0)

VecAdd(u, v) == <<u[1] + v[1], u[2] + v[2], u[3] + v[3]>>

VecSub(u, v) == <<u[1] - v[1], u[2] - v[2], u[3] - v[3]>>

VecScale(k, v) == <<k * v[1], k * v[2], k * v[3]>>

\* Matrix3D( d ): the diagonal matrix d * identity
DiagonalMatrix(d) == <<<<d, 0, 0>>, <<0, d, 0>>, <<0, 0, d>>>>

identity == DiagonalMatrix(1)

inversion == DiagonalMatrix(-1)

MatVec(m, v) == [i \in 1..3 |-> m[i][1] * v[1] + m[i][2] * v[2] + m[i][3] * v[3]]

MatMul(a, b) ==
    [i \in 1..3 |-> [j \in 1..3 |-> a[i][1] * b[1][j] + a[i][2] * b[2][j] + a[i][3] * b[3][j]]]

MatScale(k, m) == [i \in 1..3 |-> [j \in 1..3 |-> k * m[i][j]]]

determinant(m) ==
      m[1][1] * (m[2][2] * m[3][3] - m[2][3] * m[3][2])
    - m[1][2] * (m[2][1] * m[3][3] - m[2][3] * m[3][1])
    + m[1][3] * (m[2][1] * m[3][2] - m[2][2] * m[3][1])

\* the inverse of an integer matrix of determinant +1 or -1: determinant * adjugate
MatInverse(m) ==
    LET d == determinant(m)
        c(i, j) == LET r1 == (i % 3) + 1
                       r2 == ((i + 1) % 3) + 1
                       c1 == (j % 3) + 1
                       c2 == ((j + 1) % 3) + 1
                   IN  m[r1][c1] * m[r2][c2] - m[r1][c2] * m[r2][c1]
    IN  [i \in 1..3 |-> [j \in 1..3 |-> d * c(j, i)]]

\* nearly_equal on doubles, vectors and matrices: on the grid, equality
nearly_equal(a, b) == a = b

\* adjust_for_translations: every coordinate brought into [0,1)
adjust_for_translations(v) == [i \in 1..3 |-> v[i] % One]

(***************************************************************************)
(* SymmetryOperator.                                                       *)
(***************************************************************************)
\* the constructor keeps the translation within [0,1)
SymmetryOperator(r, t) == [rotation |-> r, translation |-> adjust_for_translations(t)]

\* operator*: rotation a.R * b.R, translation a.R * b.t + a.t
OpMul(a, b) ==
    SymmetryOperator(MatMul(a.rotation, b.rotation),
                     VecAdd(MatVec(a.rotation, b.translation), a.translation))

\* invert(): ( R^-1, -R^-1 t )
OpInverse(a) ==
    LET ri == MatInverse(a.rotation)
    IN  SymmetryOperator(ri, VecScale(-1, MatVec(ri, a.translation)))

\* nearly_equal on operators: rotation and translation compared component-wise
nearly_equal_op(a, b) ==
    nearly_equal(a.rotation, b.rotation) /\ nearly_equal(a.translation, b.translation)

(***************************************************************************)
(* check_if_closed: every composition of two listed operators is listed.   *)
(***************************************************************************)
\* the innermost loop: is result equal to one of symmetry_operators[k..] ?
closed_find(symmetry_operators, result, k) ==
    \E l \in k..Len(symmetry_operators) : nearly_equal_op(result, symmetry_operators[l])

\* the loop over j for one i, from j on; FALSE when the function throws
closed_row(symmetry_operators, i, j) ==
    \A l \in j..Len(symmetry_operators) :
        closed_find(symmetry_operators, OpMul(symmetry_operators[i], symmetry_operators[l]), 1)

\* the loop over i, from i on, the first row from j on; FALSE when the function throws
closed_from(symmetry_operators, i, j) ==
    \A row \in i..Len(symmetry_operators) :
        closed_row(symmetry_operators, row, IF row = i THEN j ELSE 1)

\* a closure check that leaves out the composition of an operator with itself
check_if_closed_distinct_pairs(symmetry_operators) ==
    \A i \in 1..Len(symmetry_operators), j \in 1..Len(symmetry_operators) :
        i # j => closed_find(symmetry_operators, OpMul(symmetry_operators[i], symmetry_operators[j]), 1)

check_if_closed(symmetry_operators) == closed_from(symmetry_operators, 1, 1)

(***************************************************************************)
(* SpaceGroup::decompose.  The result is the object's derived members as   *)
(* the function leaves them, and the message of the exception it raised    *)
(* ("" when it returned).                                                  *)
(***************************************************************************)
Translations(ops) == [i \in 1..Len(ops) |-> ops[i].translation]

IsProperIdentity(op) == nearly_equal(determinant(op.rotation), 1) /\ nearly_equal(op.rotation, identity)

IsImproperInversion(op) == nearly_equal(determinant(op.rotation), -1) /\ nearly_equal(op.rotation, inversion)

\* a filter with its test inverted: the zero vectors are the ones kept
ZeroCentrings(centring_vectors) ==
    LET keep(v) == nearly_equal(v, zero_vector) IN SelectSeq(centring_vectors, keep)

\* centring_vectors_: the candidates that are not the zero vector
NonZeroCentrings(centring_vectors) ==
    LET keep(v) == ~nearly_equal(v, zero_vector) IN SelectSeq(centring_vectors, keep)

CoordinateSum(v) == v[1] + v[2] + v[3]

\* the Manhattan scan: [value, position] after inversion_translation_vectors[i..]
RECURSIVE smallest_inversion(_, _, _, _)
smallest_inversion(vectors, i, smallest_value, position) ==
    IF i > Len(vectors) THEN [value |-> smallest_value, position |-> position]
    ELSE IF CoordinateSum(vectors[i]) < smallest_value
         THEN smallest_inversion(vectors, i + 1, CoordinateSum(vectors[i]), vectors[i])
    ELSE smallest_inversion(vectors, i + 1, smallest_value, position)

\* is the rotation r, or its negative, the rotation of one of reps ?
RepresentativeFound(reps, r) ==
    \E j \in 1..Len(reps) :
        \/ nearly_equal(r, reps[j].rotation)
        \/ nearly_equal(r, MatScale(-1, reps[j].rotation))

\* representatives that keep a rotation and its negative apart
RECURSIVE representatives_by_rotation_only(_, _, _)
representatives_by_rotation_only(ops, i, reps) ==
    IF i > Len(ops) THEN reps
    ELSE IF \E j \in 1..Len(reps) : nearly_equal(ops[i].rotation, reps[j].rotation)
         THEN representatives_by_rotation_only(ops, i + 1, reps)
    ELSE representatives_by_rotation_only(ops, i + 1, Append(reps, ops[i]))

\* representatives that hold the last operator of each rotation class
RECURSIVE representatives_keeping_last(_, _, _)
representatives_keeping_last(ops, i, reps) ==
    IF i > Len(ops) THEN reps
    ELSE IF RepresentativeFound(reps, ops[i].rotation)
         THEN representatives_keeping_last(ops, i + 1,
                  [j \in 1..Len(reps) |->
                      IF RepresentativeFound(<<reps[j]>>, ops[i].rotation) THEN ops[i] ELSE reps[j]])
    ELSE representatives_keeping_last(ops, i + 1, Append(reps, ops[i]))

RECURSIVE representatives(_, _, _)
representatives(ops, i, reps) ==
    IF i > Len(ops) THEN reps
    ELSE IF RepresentativeFound(reps, ops[i].rotation)
         THEN representatives(ops, i + 1, reps)
    ELSE representatives(ops, i + 1, Append(reps, ops[i]))

decompose(ops, old_position_of_inversion) ==
    LET bad == {i \in 1..Len(ops) : determinant(ops[i].rotation) \notin {1, -1}}
        first_bad == CHOOSE i \in bad : \A k \in bad : i <= k
        is_identity(op) == IsProperIdentity(op)
        is_inversion(op) == IsImproperInversion(op)
        centring_vectors == Translations(SelectSeq(ops, is_identity))
        inversion_translation_vectors == Translations(SelectSeq(ops, is_inversion))
        has_inversion == Len(inversion_translation_vectors) > 0
        identity_found == \E i \in 1..Len(centring_vectors) : nearly_equal(centring_vectors[i], zero_vector)
        \* smallest_value starts at 4.0
        smallest == smallest_inversion(inversion_translation_vectors, 1, 4 * One, old_position_of_inversion)
    IN  IF bad # {}
        THEN [error |-> "SpaceGroup::decompose(): unexpected determinant",
              representative |-> <<>>,
              centring |-> <<>>,
              has_inversion |-> \E i \in 1..(first_bad - 1) : is_inversion(ops[i]),
              has_inversion_at_origin |-> FALSE,
              position_of_inversion |-> old_position_of_inversion]
        ELSE IF ~identity_found
        THEN [error |-> "SpaceGroup::decompose(): identity not found.",
              representative |-> <<>>,
              centring |-> NonZeroCentrings(centring_vectors),
              has_inversion |-> has_inversion,
              has_inversion_at_origin |-> FALSE,
              position_of_inversion |-> old_position_of_inversion]
        ELSE [error |-> "",
              representative |-> representatives(ops, 1, <<>>),
              centring |-> NonZeroCentrings(centring_vectors),
              has_inversion |-> has_inversion,
              has_inversion_at_origin |-> has_inversion /\ nearly_equal(smallest.value, 0),
              position_of_inversion |-> IF has_inversion THEN smallest.position
                                        ELSE old_position_of_inversion]

(***************************************************************************)
(* A component no call has been made to.                                   *)
(***************************************************************************)
LatIdle ==
    /\ sd_pc = "off"
    /\ lattice = <<>>
    /\ sd_lhs = zero_vector
    /\ sd_rhs = zero_vector
    /\ difference_vector = zero_vector
    /\ shortest_distance2_ = 0
    /\ shortest_distance_changed = FALSE
    /\ sd_offset = 0
    /\ sd_passes = 0
    /\ sd_related = <<>>

CSIdle == cs_result = "" /\ pg_rotations = <<>>

SSIdle == ss_pc = "off" /\ ss_lhs = <<>> /\ ss_rhs = <<>> /\ ss_result = ""

XSIdle ==
    /\ xs_pc = "off"
    /\ xs_last = ""
    /\ xs_error = ""
    /\ atoms_ = <<>>
    /\ suppressed_ = <<>>
    /\ crystal_lattice_ = <<>>
    /\ space_group_ = <<>>
    /\ space_group_symmetry_has_been_applied_ = FALSE
    /\ xs_supercell = <<>>

CLIdle == cl_pc = "off" /\ cl_cell = <<>> /\ lattice_system_ = ""

FMIdle ==
    /\ fm_pc = "off"
    /\ fm_function = ""
    /\ fm_lhs = <<>>
    /\ fm_rhs = <<>>
    /\ fm_arguments = <<>>
    /\ integer_shifts = <<>>
    /\ fm_votes = <<>>
    /\ fm_result = ""
    /\ fm_error = ""

SGIdle ==
    /\ sg_pc = "off"
    /\ sg_input = <<>>
    /\ sg_error = ""
    /\ sg_last = ""
    /\ symmetry_operators_ = <<>>
    /\ representative_symmetry_operators_ = <<>>
    /\ centring_vectors_ = <<>>
    /\ has_inversion_ = FALSE
    /\ has_inversion_at_origin_ = FALSE
    /\ position_of_inversion_ = zero_vector

(***************************************************************************)
(* The operators and transformations the callers of the model hand in.     *)
(***************************************************************************)
\* x,y,z
OpIdentity == SymmetryOperator(identity, zero_vector)

\* -x,-y,-z
OpInversion == SymmetryOperator(inversion, zero_vector)

\* 1/4-x,-y,-z : an inversion centre away from the origin
OpInversionQuarter == SymmetryOperator(inversion, Vector3D(1, 0, 0))

\* -x,1/2+y,1/2-z : the screw axis of P21/c
OpScrew == SymmetryOperator(<<<<-1, 0, 0>>, <<0, 1, 0>>, <<0, 0, -1>>>>, Vector3D(0, 2, 2))

\* 1/2+x,1/2+y,z : a C-centring translation
OpCentring == SymmetryOperator(identity, Vector3D(2, 2, 0))

\* 1/4+x,y,z : a translation that generates more operators than a short list holds
OpQuarterShift == SymmetryOperator(identity, Vector3D(1, 0, 0))

\* x,y,0 : a projection, whose determinant is neither +1 nor -1
OpProjection == SymmetryOperator(<<<<1, 0, 0>>, <<0, 1, 0>>, <<0, 0, 0>>>>, zero_vector)

OpUniverse == {OpIdentity, OpInversion, OpInversionQuarter, OpScrew, OpCentring,
               OpQuarterShift, OpProjection}

\* 1/2-x,1/2-y,-z : the inversion that C-centring adds to -x,-y,-z
OpInversionCentred == SymmetryOperator(inversion, Vector3D(2, 2, 0))

\* x,1/2-y,1/2+z : the glide plane of P21/c
OpGlide == SymmetryOperator(<<<<1, 0, 0>>, <<0, -1, 0>>, <<0, 0, 1>>>>, Vector3D(0, 2, 2))

\* complete groups longer than MaxOps: C-1 and P21/c, the identity not always first
StandardGroups == {<<OpInversion, OpIdentity, OpCentring, OpInversionCentred>>,
                   <<OpIdentity, OpScrew, OpInversion, OpGlide>>}

\* the non-empty operator lists of at most MaxOps operators, and the standard groups
InputLists == UNION {[1..n -> OpUniverse] : n \in 1..MaxOps} \cup StandardGroups

\* the transformations handed to apply_similarity_transformation:
\* an origin shift by a quarter of a, an exchange of a and b, a half-cell shift along b
SimilarityOps == {SymmetryOperator(identity, Vector3D(1, 0, 0)),
                  SymmetryOperator(<<<<0, 1, 0>>, <<1, 0, 0>>, <<0, 0, 1>>>>, zero_vector),
                  SymmetryOperator(identity, Vector3D(0, 2, 0))}

(***************************************************************************)
(* SpaceGroup: constructors and mutating member functions.                 *)
(***************************************************************************)
\* the members become what decompose left, the message what it raised
Decomposed(ops, d, op_name) ==
    /\ symmetry_operators_' = ops
    /\ representative_symmetry_operators_' = d.representative
    /\ centring_vectors_' = d.centring
    /\ has_inversion_' = d.has_inversion
    /\ has_inversion_at_origin_' = d.has_inversion_at_origin
    /\ position_of_inversion_' = d.position_of_inversion
    /\ sg_error' = d.error
    /\ sg_last' = op_name

\* a constructor that throws leaves no object behind
ConstructionFailed(message) ==
    /\ sg_pc' = "failed"
    /\ sg_error' = message
    /\ sg_last' = "SpaceGroup"
    /\ UNCHANGED <<symmetry_operators_, representative_symmetry_operators_, centring_vectors_,
                   has_inversion_, has_inversion_at_origin_, position_of_inversion_>>

\* SpaceGroup::SpaceGroup()
SpaceGroup_default ==
    /\ sg_pc = "new"
    /\ sg_pc' = "constructed"
    /\ Decomposed(<<OpIdentity>>, decompose(<<OpIdentity>>, zero_vector), "SpaceGroup")
    /\ sg_input' = <<>>
    /\ UNCHANGED nonSG

IsIdentityOperator(op) ==
    nearly_equal(op.rotation, identity) /\ nearly_equal(op.translation, zero_vector)

\* a constructor that leaves the list in the order given
identity_not_moved(ops) == ops

\* "Make the identity the first symmetry operator"
identity_first(ops) ==
    IF IsIdentityOperator(ops[1]) THEN ops
    ELSE LET found == {i \in 2..Len(ops) : IsIdentityOperator(ops[i])}
         IN  IF found = {} THEN ops
             ELSE LET i == CHOOSE k \in found : \A m \in found : k <= m
                  IN  [ops EXCEPT ![1] = ops[i], ![i] = ops[1]]

\* SpaceGroup::SpaceGroup( symmetry_operators, name )
SpaceGroup_from_list ==
    /\ sg_pc = "new"
    /\ IF ~check_if_closed(sg_input)
       THEN ConstructionFailed("check_if_closed( std::vector< SymmetryOperator > ): operator not found.")
       ELSE LET ops == identity_first(sg_input)
                d == decompose(ops, zero_vector)
            IN  IF d.error # ""
                THEN ConstructionFailed(d.error)
                ELSE sg_pc' = "constructed" /\ Decomposed(ops, d, "SpaceGroup")
    /\ sg_input' = <<>>
    /\ UNCHANGED nonSG

\* the doubled list with the product taken in the other order, g * inversion
RECURSIVE with_inversion_on_the_right(_, _, _)
with_inversion_on_the_right(ops, i, result) ==
    IF i > Len(ops) THEN result
    ELSE with_inversion_on_the_right(ops, i + 1,
             Append(Append(result, ops[i]), OpMul(ops[i], SymmetryOperator(inversion, zero_vector))))

\* the doubled list with the products put after all the original operators
with_inversion_appended(ops, i, result) ==
    ops \o [k \in 1..Len(ops) |-> OpMul(SymmetryOperator(inversion, zero_vector), ops[k])]

\* the doubled list: each operator followed by its product with the inversion at the origin
RECURSIVE with_inversion(_, _, _)
with_inversion(ops, i, result) ==
    IF i > Len(ops) THEN result
    ELSE with_inversion(ops, i + 1,
             Append(Append(result, ops[i]), OpMul(SymmetryOperator(inversion, zero_vector), ops[i])))

\* SpaceGroup::add_inversion_at_origin
add_inversion_at_origin ==
    /\ sg_pc = "constructed"
    /\ 2 * Len(symmetry_operators_) <= MaxLen
    /\ IF has_inversion_at_origin_
       THEN /\ sg_last' = "add_inversion_at_origin"
            /\ UNCHANGED <<symmetry_operators_, representative_symmetry_operators_,
                           centring_vectors_, has_inversion_, has_inversion_at_origin_,
                           position_of_inversion_, sg_error>>
       ELSE LET ops == with_inversion(symmetry_operators_, 1, <<>>)
            IN  Decomposed(ops, decompose(ops, position_of_inversion_), "add_inversion_at_origin")
    /\ UNCHANGED <<sg_pc, sg_input, nonSG>>

\* a transformation that keeps the original operators beside the transformed ones
similarity_transformed_keeping_originals(symmetry_operator, ops) ==
    LET inverse == OpInverse(symmetry_operator)
    IN  ops \o [i \in 1..Len(ops) |-> OpMul(OpMul(symmetry_operator, ops[i]), inverse)]

similarity_transformed(symmetry_operator, ops) ==
    LET inverse == OpInverse(symmetry_operator)
    IN  [i \in 1..Len(ops) |-> OpMul(OpMul(symmetry_operator, ops[i]), inverse)]

\* SpaceGroup::apply_similarity_transformation
apply_similarity_transformation ==
    /\ sg_pc = "constructed"
    /\ \E symmetry_operator \in SimilarityOps :
          LET ops == similarity_transformed(symmetry_operator, symmetry_operators_)
          IN  Decomposed(ops, decompose(ops, position_of_inversion_), "apply_similarity_transformation")
    /\ UNCHANGED <<sg_pc, sg_input, nonSG>>

\* a removal that compares each operator only with the operator kept last
\* the list without the negated rotations
RECURSIVE rotations_without_negatives(_, _, _, _)
rotations_without_negatives(representatives_, has_inversion, i, rotations) ==
    IF i > Len(representatives_) THEN rotations
    ELSE rotations_without_negatives(representatives_, has_inversion, i + 1,
             Append(rotations, representatives_[i].rotation))

\* the list SpaceGroup::point_group builds: each representative's rotation, followed
\* by its negative when has_inversion_ is set
RECURSIVE rotations_of_point_group(_, _, _, _)
rotations_of_point_group(representatives_, has_inversion, i, rotations) ==
    IF i > Len(representatives_) THEN rotations
    ELSE rotations_of_point_group(representatives_, has_inversion, i + 1,
             IF has_inversion
             THEN Append(Append(rotations, representatives_[i].rotation),
                         MatScale(-1, representatives_[i].rotation))
             ELSE Append(rotations, representatives_[i].rotation))

\* SpaceGroup::point_group, up to the construction of the PointGroup
point_group ==
    /\ sg_pc = "constructed"
    /\ pg_rotations' = rotations_of_point_group(representative_symmetry_operators_, has_inversion_, 1, <<>>)
    /\ UNCHANGED <<sgVars, cs_result, latVars, clVars, fmVars, ssVars, xsVars>>

RECURSIVE without_adjacent_duplicates(_, _, _)
without_adjacent_duplicates(ops, i, new_symmetry_operators) ==
    IF i > Len(ops) THEN new_symmetry_operators
    ELSE IF nearly_equal_op(ops[i], new_symmetry_operators[Len(new_symmetry_operators)])
         THEN without_adjacent_duplicates(ops, i + 1, new_symmetry_operators)
    ELSE without_adjacent_duplicates(ops, i + 1, Append(new_symmetry_operators, ops[i]))

RECURSIVE without_duplicates(_, _, _)
without_duplicates(ops, i, new_symmetry_operators) ==
    IF i > Len(ops) THEN new_symmetry_operators
    ELSE IF \E j \in 1..Len(new_symmetry_operators) : nearly_equal_op(ops[i], new_symmetry_operators[j])
         THEN without_duplicates(ops, i + 1, new_symmetry_operators)
    ELSE without_duplicates(ops, i + 1, Append(new_symmetry_operators, ops[i]))

\* a remove_duplicate_symmetry_operators that does not call decompose()
remove_duplicates_without_decompose ==
    /\ sg_pc = "constructed"
    /\ symmetry_operators_' = without_duplicates(symmetry_operators_, 2, <<symmetry_operators_[1]>>)
    /\ sg_last' = "remove_duplicate_symmetry_operators"
    /\ UNCHANGED <<representative_symmetry_operators_, centring_vectors_, has_inversion_,
                   has_inversion_at_origin_, position_of_inversion_, sg_error>>
    /\ UNCHANGED <<sg_pc, sg_input, nonSG>>

\* SpaceGroup::remove_duplicate_symmetry_operators
remove_duplicate_symmetry_operators ==
    /\ sg_pc = "constructed"
    /\ LET ops == without_duplicates(symmetry_operators_, 2, <<symmetry_operators_[1]>>)
       IN  Decomposed(ops, decompose(ops, position_of_inversion_), "remove_duplicate_symmetry_operators")
    /\ UNCHANGED <<sg_pc, sg_input, nonSG>>

(***************************************************************************)
(* The SpaceGroup specification.                                           *)
(***************************************************************************)
Init ==
    /\ sg_pc = "new"
    /\ sg_input \in InputLists
    /\ sg_error = ""
    /\ sg_last = ""
    /\ symmetry_operators_ = <<>>
    /\ representative_symmetry_operators_ = <<>>
    /\ centring_vectors_ = <<>>
    /\ has_inversion_ = FALSE
    /\ has_inversion_at_origin_ = FALSE
    /\ position_of_inversion_ = zero_vector
    /\ LatIdle
    /\ CSIdle
    /\ SSIdle
    /\ XSIdle
    /\ CLIdle
    /\ FMIdle

Next ==
    \/ SpaceGroup_default
    \/ SpaceGroup_from_list
    \/ add_inversion_at_origin
    \/ apply_similarity_transformation
    \/ remove_duplicate_symmetry_operators
    \/ point_group

Spec == Init /\ [][Next]_vars

(***************************************************************************)
(* CrystalLattice.  A lattice is its three basis vectors in Cartesian      *)
(* coordinates, as the constructor lays them out: a along x, b in the xy   *)
(* plane.  They are the columns of fractional_to_orthogonal_matrix_.       *)
(* Fractional positions are counted in 1/One of a cell edge, so Cartesian  *)
(* lengths come out multiplied by One and squared lengths by One * One.    *)
(***************************************************************************)
CrystalLattice(a_vector, b_vector, c_vector) ==
    [a_vector |-> a_vector, b_vector |-> b_vector, c_vector |-> c_vector]

\* CrystalLattice::fractional_to_orthogonal
fractional_to_orthogonal(crystal_lattice, input) ==
    VecAdd(VecAdd(VecScale(input[1], crystal_lattice.a_vector),
                  VecScale(input[2], crystal_lattice.b_vector)),
           VecScale(input[3], crystal_lattice.c_vector))

\* Vector3D::norm2
norm2(v) == v[1] * v[1] + v[2] * v[2] + v[3] * v[3]

\* the n-th offset Vector3D( i, j, k ) of the three nested loops, n = 0 .. 26, k running fastest
Offset(n) == VecScale(One, Vector3D((n \div 9) - 1, ((n \div 3) % 3) - 1, (n % 3) - 1))

\* the candidate a call starts from: the difference vector and its squared length
Candidate(crystal_lattice, dv) ==
    [difference_vector |-> dv,
     shortest_distance2 |-> norm2(fractional_to_orthogonal(crystal_lattice, dv)),
     changed |-> FALSE]

\* the innermost loop body with shortest_distance_changed never set
try_offset_never_changed(crystal_lattice, candidate, n) ==
    LET new_difference_vector == VecAdd(candidate.difference_vector, Offset(n))
        distance2 == norm2(fractional_to_orthogonal(crystal_lattice, new_difference_vector))
    IN  IF distance2 < candidate.shortest_distance2
        THEN [difference_vector |-> new_difference_vector, shortest_distance2 |-> distance2,
              changed |-> FALSE]
        ELSE candidate

\* the innermost loop body: the candidate moves to the neighbour when that is nearer
try_offset(crystal_lattice, candidate, n) ==
    LET new_difference_vector == VecAdd(candidate.difference_vector, Offset(n))
        distance2 == norm2(fractional_to_orthogonal(crystal_lattice, new_difference_vector))
    IN  IF distance2 < candidate.shortest_distance2
        THEN [difference_vector |-> new_difference_vector, shortest_distance2 |-> distance2,
              changed |-> TRUE]
        ELSE candidate

\* the innermost for loop (over k) from offset n on, up to the offset last: the
\* later offsets are added to the candidate as the earlier ones left it.  (The
\* singleton set binds the value of each step before the next one reads it.)
RECURSIVE scan_k(_, _, _, _)
scan_k(crystal_lattice, candidate, n, last) ==
    IF n > last THEN candidate
    ELSE CHOOSE result \in {scan_k(crystal_lattice, next, n + 1, last) :
                               next \in {try_offset(crystal_lattice, candidate, n)}} : TRUE

\* one pass of the do-while body from offset n on: what is left of the innermost
\* loop that holds offset n, then the following ones
RECURSIVE scan(_, _, _)
scan(crystal_lattice, candidate, n) ==
    IF n > 26 THEN candidate
    ELSE CHOOSE result \in {scan(crystal_lattice, next, ((n \div 3) * 3) + 3) :
                               next \in {scan_k(crystal_lattice, candidate, n,
                                                ((n \div 3) * 3) + 2)}} : TRUE

\* the do-while loop: passes until one changes nothing
RECURSIVE do_while(_, _)
do_while(crystal_lattice, candidate) ==
    CHOOSE result \in
        {IF pass.changed THEN do_while(crystal_lattice, pass) ELSE pass :
            pass \in {scan(crystal_lattice, [candidate EXCEPT !.changed = FALSE], 0)}} : TRUE

\* a shortest_distance2 that does not bring rhs - lhs into the cell first
shortest_distance2_unreduced(crystal_lattice, lhs, rhs) ==
    do_while(crystal_lattice, Candidate(crystal_lattice, VecSub(rhs, lhs))).shortest_distance2

\* CrystalLattice::shortest_distance2( lhs, rhs )
shortest_distance2(crystal_lattice, lhs, rhs) ==
    do_while(crystal_lattice,
             Candidate(crystal_lattice, adjust_for_translations(VecSub(rhs, lhs)))).shortest_distance2

\* CrystalLattice::shortest_distance( lhs, rhs, output_distance, output_difference_vector ):
\* the same loop; output_distance is kept squared (the function returns its square root)
shortest_distance(crystal_lattice, lhs, rhs) ==
    LET r == do_while(crystal_lattice,
                      Candidate(crystal_lattice, adjust_for_translations(VecSub(rhs, lhs))))
    IN  [output_distance2 |-> r.shortest_distance2, output_difference_vector |-> r.difference_vector]

(***************************************************************************)
(* The callers' lattices and positions.                                    *)
(***************************************************************************)
\* largest coordinate (in 1/One) of the position rhs
MaxCoord == 3

\* a cubic cell; a monoclinic cell with an obtuse beta; a cell with a very acute gamma;
\* a triclinic cell
Lattices == {CrystalLattice(Vector3D(10, 0, 0), Vector3D(0, 10, 0), Vector3D(0, 0, 10)),
             CrystalLattice(Vector3D(4, 0, 0), Vector3D(0, 5, 0), Vector3D(-2, 0, 6)),
             CrystalLattice(Vector3D(3, 0, 0), Vector3D(10, 1, 0), Vector3D(0, 0, 20)),
             CrystalLattice(Vector3D(5, 0, 0), Vector3D(2, 4, 0), Vector3D(1, 1, 3))}

\* the positions lhs: inside the cell, on its corner, outside it
LhsPositions == {Vector3D(0, 0, 0), Vector3D(1, 2, 3), Vector3D(-3, 6, 2), Vector3D(2, 2, 0)}

RhsPositions == {Vector3D(x, y, z) : x \in 0..MaxCoord, y \in 0..MaxCoord, z \in 0..MaxCoord}

\* integer lattice vectors n (whole cells)
LatticeShifts == {VecScale(One, Vector3D(1, 0, 0)), VecScale(One, Vector3D(0, -1, 2)),
                  VecScale(One, Vector3D(-3, 1, 0))}

(***************************************************************************)
(* shortest_distance2 step by step, and the calls it is compared with.     *)
(***************************************************************************)
\* the reduced difference vector and its squared length; the first pass begins
sd_enter ==
    /\ sd_pc = "idle"
    /\ sd_pc' = "loop"
    /\ difference_vector' = adjust_for_translations(VecSub(sd_rhs, sd_lhs))
    /\ shortest_distance2_' =
          norm2(fractional_to_orthogonal(lattice, adjust_for_translations(VecSub(sd_rhs, sd_lhs))))
    /\ shortest_distance_changed' = FALSE
    /\ sd_offset' = 0
    /\ UNCHANGED <<lattice, sd_lhs, sd_rhs, sd_passes, sd_related, nonLat>>

\* the body of the innermost loop, for one offset ( i, j, k )
sd_try_offset ==
    /\ sd_pc = "loop"
    /\ sd_offset <= 26
    /\ \E candidate \in {try_offset(lattice, [difference_vector |-> difference_vector,
                                              shortest_distance2 |-> shortest_distance2_,
                                              changed |-> shortest_distance_changed], sd_offset)} :
          /\ difference_vector' = candidate.difference_vector
          /\ shortest_distance2_' = candidate.shortest_distance2
          /\ shortest_distance_changed' = candidate.changed
    /\ sd_offset' = sd_offset + 1
    /\ UNCHANGED <<sd_pc, lattice, sd_lhs, sd_rhs, sd_passes, sd_related, nonLat>>

\* while ( shortest_distance_changed ): another pass, or the return
sd_while ==
    /\ sd_pc = "loop"
    /\ sd_offset = 27
    /\ sd_passes' = sd_passes + 1
    /\ IF shortest_distance_changed
       THEN /\ shortest_distance_changed' = FALSE
            /\ sd_offset' = 0
            /\ UNCHANGED sd_pc
       ELSE /\ sd_pc' = "done"
            /\ UNCHANGED <<shortest_distance_changed, sd_offset>>
    /\ UNCHANGED <<lattice, sd_lhs, sd_rhs, difference_vector, shortest_distance2_, sd_related, nonLat>>

\* the caller goes on to call with the arguments exchanged, with both or one of them
\* moved by a lattice vector n, and the overload that returns the difference vector
sd_related_calls ==
    /\ sd_pc = "done"
    /\ sd_pc' = "compared"
    /\ \E n \in LatticeShifts :
          sd_related' = [n |-> n,
                         exchanged |-> shortest_distance2(lattice, sd_rhs, sd_lhs),
                         both_moved |-> shortest_distance2(lattice, VecAdd(sd_lhs, n), VecAdd(sd_rhs, n)),
                         rhs_moved |-> shortest_distance2(lattice, sd_lhs, VecAdd(sd_rhs, n)),
                         overload |-> shortest_distance(lattice, sd_lhs, sd_rhs)]
    /\ UNCHANGED <<lattice, sd_lhs, sd_rhs, difference_vector, shortest_distance2_,
                   shortest_distance_changed, sd_offset, sd_passes, nonLat>>

InitLattice ==
    /\ SGIdle
    /\ CSIdle
    /\ SSIdle
    /\ XSIdle
    /\ CLIdle
    /\ FMIdle
    /\ sd_pc = "idle"
    /\ lattice \in Lattices
    /\ sd_lhs \in LhsPositions
    /\ sd_rhs \in RhsPositions
    /\ difference_vector = zero_vector
    /\ shortest_distance2_ = 0
    /\ shortest_distance_changed = FALSE
    /\ sd_offset = 0
    /\ sd_passes = 0
    /\ sd_related = <<>>

NextLattice ==
    \/ sd_enter
    \/ sd_try_offset
    \/ sd_while
    \/ sd_related_calls

SpecLattice == InitLattice /\ [][NextLattice]_vars

\* the control of a call in progress moves on: into the loop, to the next offset,
\* from the end of a pass to the next pass or to the return
sd_control_advances ==
    \/ sd_pc = "idle" /\ sd_pc' = "loop" /\ sd_offset' = 0
    \/ sd_pc = "loop" /\ sd_offset <= 26 /\ sd_pc' = "loop" /\ sd_offset' = sd_offset + 1
    \/ sd_pc = "loop" /\ sd_offset = 27 /\ sd_pc' = "loop" /\ sd_offset' = 0
    \/ sd_pc = "loop" /\ sd_offset = 27 /\ sd_pc' = "done" /\ sd_offset' = 27

\* the function is sequential code: once called, its next statement is executed
SpecLatticeFair == SpecLattice /\ WF_<<sd_pc, sd_offset>>(sd_control_advances)

(***************************************************************************)
(* Properties of SpaceGroup.                                               *)
(***************************************************************************)
ClosureMessage == "check_if_closed( std::vector< SymmetryOperator > ): operator not found."

\* some composition of two operators of ops is not an operator of ops
SomeProductMissing(ops) ==
    \E i \in 1..Len(ops), j \in 1..Len(ops) :
        \A k \in 1..Len(ops) : ~nearly_equal_op(OpMul(ops[i], ops[j]), ops[k])

\* C1: the constructor from an operator list raises the closure error whenever the
\* composition of some ordered pair of listed operators (an operator with itself
\* included) equals no listed operator, and the closure check rejects no list in
\* which every pairwise composition is found.
C1_ClosureChecked ==
    [][SpaceGroup_from_list =>
          /\ SomeProductMissing(sg_input) => (sg_pc' = "failed" /\ sg_error' = ClosureMessage)
          /\ ~SomeProductMissing(sg_input) => sg_error' # ClosureMessage]_vars

C1_Witness == sg_pc = "failed" /\ sg_error = ClosureMessage

\* C2: in every state of a constructed SpaceGroup, whatever sequence of
\* add_inversion_at_origin, apply_similarity_transformation and
\* remove_duplicate_symmetry_operators followed the construction, the operator at
\* index 0 is the identity (identity rotation, zero translation).
C2_IdentityFirst ==
    sg_pc = "constructed" =>
        /\ Len(symmetry_operators_) >= 1
        /\ symmetry_operators_[1].rotation = identity
        /\ symmetry_operators_[1].translation = zero_vector

C2_Witness ==
    /\ sg_pc = "constructed"
    /\ sg_last = "apply_similarity_transformation"
    /\ Len(symmetry_operators_) >= 4
    /\ symmetry_operators_[1] = OpIdentity

\* C3: in every state of a constructed SpaceGroup, after any sequence of the
\* mutating operations, the operator set is closed under composition: the
\* composition of any two operators of the list is an operator of the list.
C3_ClosedAlways == sg_pc = "constructed" => ~SomeProductMissing(symmetry_operators_)

\* C4: after construction and after every mutating operation the derived
\* decomposition is that of the current operator list: has_inversion iff some
\* operator has rotation -identity, has_inversion_at_origin iff an inversion was
\* selected and its translation has coordinate sum 0, centring_vectors the non-zero
\* translations of the identity-rotation operators, representative_symmetry_operators
\* the first operator of each rotation class.
InversionTranslations(ops) ==
    {ops[i].translation : i \in {k \in 1..Len(ops) : ops[k].rotation = inversion}}

C4_DecompositionFresh ==
    sg_pc = "constructed" =>
        LET ops == symmetry_operators_
            is_centring(op) == op.rotation = identity /\ op.translation # zero_vector
        IN  /\ has_inversion_ <=> (\E i \in 1..Len(ops) : ops[i].rotation = inversion)
            /\ has_inversion_ =>
                  /\ position_of_inversion_ \in InversionTranslations(ops)
                  /\ \A t \in InversionTranslations(ops) :
                        CoordinateSum(position_of_inversion_) <= CoordinateSum(t)
            /\ has_inversion_at_origin_ <=>
                  (has_inversion_ /\ CoordinateSum(position_of_inversion_) = 0)
            /\ centring_vectors_ = Translations(SelectSeq(ops, is_centring))
            /\ representative_symmetry_operators_ = representatives(ops, 1, <<>>)

C4_Witness ==
    /\ sg_pc = "constructed"
    /\ sg_last = "remove_duplicate_symmetry_operators"
    /\ has_inversion_ /\ ~has_inversion_at_origin_
    /\ Len(centring_vectors_) >= 1
    /\ Len(representative_symmetry_operators_) < Len(symmetry_operators_)

\* C5: for every successfully constructed SpaceGroup, the operators regenerated from
\* every representative operator, every centring vector (the zero vector included)
\* and, when has_inversion is true, the inversion at position_of_inversion are, as
\* a set, exactly the operators of the group.
Regenerated ==
    LET shifted == {OpMul(SymmetryOperator(identity, c), representative_symmetry_operators_[i]) :
                       c \in {centring_vectors_[k] : k \in 1..Len(centring_vectors_)} \cup {zero_vector},
                       i \in 1..Len(representative_symmetry_operators_)}
    IN  IF has_inversion_
        THEN shifted \cup {OpMul(SymmetryOperator(inversion, position_of_inversion_), g) : g \in shifted}
        ELSE shifted

C5_RoundTrip ==
    (sg_pc = "constructed" /\ sg_last = "SpaceGroup") =>
        Regenerated = {symmetry_operators_[i] : i \in 1..Len(symmetry_operators_)}

C5_Witness ==
    /\ sg_pc = "constructed" /\ sg_last = "SpaceGroup"
    /\ has_inversion_
    /\ Len(centring_vectors_) >= 1
    /\ Cardinality(Regenerated) = 4

\* C10: add_inversion_at_origin changes nothing when has_inversion_at_origin is
\* true; otherwise the new list holds exactly the old operators and, for each old
\* operator g, the product of the inversion at the origin with g (twice as
\* many operators); after any call has_inversion and has_inversion_at_origin are
\* both true, so that a second call in a row changes nothing.
Count(op, ops) == Cardinality({i \in 1..Len(ops) : ops[i] = op})

C10_AddInversion ==
    [][add_inversion_at_origin =>
          LET old == symmetry_operators_
              new == symmetry_operators_'
              images == [i \in 1..Len(old) |-> OpMul(OpInversion, old[i])]
          IN  /\ has_inversion_at_origin_ => new = old
              /\ ~has_inversion_at_origin_ =>
                    /\ Len(new) = 2 * Len(old)
                    /\ \A op \in {new[i] : i \in 1..Len(new)} \cup {old[i] : i \in 1..Len(old)} :
                          Count(op, new) = Count(op, old) + Count(op, images)
              /\ has_inversion_' /\ has_inversion_at_origin_']_vars

C10_Witness ==
    /\ sg_pc = "constructed"
    /\ sg_last = "add_inversion_at_origin"
    /\ has_inversion_ /\ has_inversion_at_origin_
    /\ Len(symmetry_operators_) >= 4
    /\ \E i \in 1..Len(symmetry_operators_) :
          symmetry_operators_[i].translation # zero_vector

(***************************************************************************)
(* Properties of CrystalLattice::shortest_distance2 / shortest_distance.   *)
(***************************************************************************)
\* how many cells, along each axis, the search for a nearer lattice translate goes
SearchRadius == 4

SearchBox ==
    {VecScale(One, Vector3D(x, y, z)) :
        x \in -SearchRadius..SearchRadius, y \in -SearchRadius..SearchRadius,
        z \in -SearchRadius..SearchRadius}

\* the squared Cartesian length of rhs - lhs + n
TranslateDistance2(n) ==
    norm2(fractional_to_orthogonal(lattice, VecAdd(VecSub(sd_rhs, sd_lhs), n)))

\* C6: for every lattice and every pair of fractional positions, the value
\* shortest_distance2 returns is the minimum over all integer vectors n of the
\* squared length of rhs - lhs + n (no translate within SearchRadius cells is
\* nearer), and the difference vector of the three-argument overload attains it.
C6_GlobalMinimum ==
    /\ sd_pc = "done" => \A n \in SearchBox : shortest_distance2_ <= TranslateDistance2(n)
    /\ sd_pc = "compared" =>
          \A n \in SearchBox :
              norm2(fractional_to_orthogonal(lattice, sd_related.overload.output_difference_vector))
                  <= TranslateDistance2(n)

\* C7: shortest_distance2( lhs, rhs ) = shortest_distance2( rhs, lhs ) for every
\* lattice and all positions.
C7_Symmetric == sd_pc = "compared" => sd_related.exchanged = shortest_distance2_

NoNearerNeighbour ==
    \A n \in 0..26 :
        norm2(fractional_to_orthogonal(lattice, VecAdd(difference_vector, Offset(n))))
            >= shortest_distance2_

C9_Terminates ==
    /\ [][sd_pc = "loop" =>
             /\ shortest_distance2_' <= shortest_distance2_
             /\ difference_vector' # difference_vector =>
                   (shortest_distance2_' < shortest_distance2_ /\ shortest_distance_changed')
             /\ (sd_offset = 27 /\ sd_pc' = "loop") => shortest_distance_changed]_vars
    /\ [](sd_pc = "done" => NoNearerNeighbour)
    /\ <>(sd_pc = "done")

C9_Witness ==
    /\ sd_pc = "done"
    /\ sd_passes >= 3
    /\ NoNearerNeighbour
    /\ difference_vector # adjust_for_translations(VecSub(sd_rhs, sd_lhs))

(***************************************************************************)
(* Further properties of SpaceGroup.                                       *)
(***************************************************************************)
\* add_inversion_at_origin doubles the list of a group without an inversion at the origin
AddsInversion == add_inversion_at_origin /\ ~has_inversion_at_origin_

\* C11 (as the code has it): when add_inversion_at_origin is called on n operators
\* without an inversion at the origin, the new list holds, for each i, the original
\* operator i at index 2i and its product with the inversion at index 2i+1
\* (indices from 0): the originals and their images alternate.
C11_Interleaved ==
    [][AddsInversion =>
          /\ Len(symmetry_operators_') = 2 * Len(symmetry_operators_)
          /\ \A i \in 1..Len(symmetry_operators_) :
                /\ symmetry_operators_'[2 * i - 1] = symmetry_operators_[i]
                /\ symmetry_operators_'[2 * i] = OpMul(OpInversion, symmetry_operators_[i])]_vars

\* C11 (as stated): the n original operators stay at indices 0..n-1 in their order
\* and the n products with the inversion follow at indices n..2n-1.
C11_Appended ==
    [][AddsInversion =>
          LET n == Len(symmetry_operators_)
          IN  /\ Len(symmetry_operators_') = 2 * n
              /\ \A i \in 1..n :
                    /\ symmetry_operators_'[i] = symmetry_operators_[i]
                    /\ symmetry_operators_'[n + i] = OpMul(OpInversion, symmetry_operators_[i])]_vars

C11_Witness ==
    /\ sg_pc = "constructed"
    /\ sg_last = "add_inversion_at_origin"
    /\ Len(symmetry_operators_) = 4
    /\ symmetry_operators_[2] = OpInversion
    /\ symmetry_operators_[3] = OpScrew
    /\ symmetry_operators_[4] = OpGlide

(***************************************************************************)
(* SpaceGroup::crystal_system and SpaceGroup::P21c.                        *)
(***************************************************************************)
trace(m) == m[1][1] + m[2][2] + m[3][3]

\* SymmetryOperator::rotation_part_type: the order of the rotation, negative for an
\* improper one (1, 2, 3, 4, 6, -1, -2 = m, -3, -4, -6), from determinant and trace;
\* 0 stands for a rotation of no crystallographic type
rotation_part_type(op) ==
    LET d == determinant(op.rotation)
        t == d * trace(op.rotation)
    IN  IF d \notin {1, -1} THEN 0
        ELSE d * (CASE t = 3 -> 1
                    [] t = -1 -> 2
                    [] t = 0 -> 3
                    [] t = 1 -> 4
                    [] t = 2 -> 6
                    [] OTHER -> 0)

\* abs( int )
abs(n) == IF n < 0 THEN -n ELSE n

\* the loop with the switch: [sum_2, sum_3, sum_4, sum_6] after representatives i..
RECURSIVE tally(_, _, _)
tally(representatives_, i, sums) ==
    IF i > Len(representatives_) THEN sums
    ELSE LET type == abs(rotation_part_type(representatives_[i]))
         IN  tally(representatives_, i + 1,
                   CASE type = 2 -> [sums EXCEPT !.sum_2 = @ + 1]
                     [] type = 3 -> [sums EXCEPT !.sum_3 = @ + 1]
                     [] type = 4 -> [sums EXCEPT !.sum_4 = @ + 1]
                     [] type = 6 -> [sums EXCEPT !.sum_6 = @ + 1]
                     [] OTHER -> sums)

NoSums == [sum_2 |-> 0, sum_3 |-> 0, sum_4 |-> 0, sum_6 |-> 0]

\* a crystal_system that tests for two threefold axes before two sixfold axes
crystal_system_trigonal_first(representatives_) ==
    IF Len(representatives_) = 1 THEN "triclinic"
    ELSE LET sums == tally(representatives_, 1, NoSums)
         IN  IF sums.sum_3 = 8 THEN "cubic"
             ELSE IF sums.sum_3 = 2 THEN "trigonal"
             ELSE IF sums.sum_6 = 2 THEN "hexagonal"
             ELSE IF sums.sum_4 = 2 THEN "tetragonal"
             ELSE IF sums.sum_2 = 3 THEN "orthorhombic"
             ELSE IF sums.sum_2 = 1 THEN "monoclinic"
             ELSE "error"

\* what SpaceGroup::crystal_system returns for the representative operators given;
\* "error" when it throws "we should never be here."
crystal_system_name(representatives_) ==
    IF Len(representatives_) = 1 THEN "triclinic"
    ELSE LET sums == tally(representatives_, 1, NoSums)
         IN  IF sums.sum_3 = 8 THEN "cubic"
             ELSE IF sums.sum_6 = 2 THEN "hexagonal"
             ELSE IF sums.sum_3 = 2 THEN "trigonal"
             ELSE IF sums.sum_4 = 2 THEN "tetragonal"
             ELSE IF sums.sum_2 = 3 THEN "orthorhombic"
             ELSE IF sums.sum_2 = 1 THEN "monoclinic"
             ELSE "error"

\* SpaceGroup::crystal_system, called on the object or on a list of representatives given
crystal_system ==
    /\ sg_pc \in {"constructed", "given"}
    /\ cs_result' = crystal_system_name(representative_symmetry_operators_)
    /\ sg_last' = "crystal_system"
    /\ UNCHANGED <<sg_pc, sg_input, sg_error, symmetry_operators_, representative_symmetry_operators_,
                   centring_vectors_, has_inversion_, has_inversion_at_origin_,
                   position_of_inversion_, pg_rotations, latVars, clVars, fmVars, ssVars, xsVars>>

\* P21c() with the inversion left out
P21c_without_inversion ==
    /\ sg_pc = "new"
    /\ sg_pc' = "constructed"
    /\ LET ops == identity_first(<<OpIdentity, OpScrew>>)
       IN  Decomposed(ops, decompose(ops, zero_vector), "P21c")
    /\ sg_input' = <<>>
    /\ UNCHANGED nonSG

\* SpaceGroup::P21c: the constructor on { x,y,z ; -x,1/2+y,1/2-z }, then add_inversion_at_origin
P21c ==
    /\ sg_pc = "new"
    /\ LET symmetry_operators == <<OpIdentity, OpScrew>>
           constructed == identity_first(symmetry_operators)
           d == decompose(constructed, zero_vector)
           result == IF d.has_inversion_at_origin THEN constructed
                     ELSE with_inversion(constructed, 1, <<>>)
       IN  IF ~check_if_closed(symmetry_operators)
           THEN ConstructionFailed("check_if_closed( std::vector< SymmetryOperator > ): operator not found.")
           ELSE IF d.error # "" THEN ConstructionFailed(d.error)
           ELSE /\ sg_pc' = "constructed"
                /\ Decomposed(result, decompose(result, d.position_of_inversion), "P21c")
    /\ sg_input' = <<>>
    /\ UNCHANGED nonSG

(***************************************************************************)
(* The 32 crystallographic point groups as operator lists, each generated  *)
(* from its generators; trigonal and hexagonal groups on hexagonal axes.   *)
(***************************************************************************)
Rot2z == <<<<-1, 0, 0>>, <<0, -1, 0>>, <<0, 0, 1>>>>
Rot2y == <<<<-1, 0, 0>>, <<0, 1, 0>>, <<0, 0, -1>>>>
Rot2x == <<<<1, 0, 0>>, <<0, -1, 0>>, <<0, 0, -1>>>>
Rot4z == <<<<0, -1, 0>>, <<1, 0, 0>>, <<0, 0, 1>>>>
Rot3z == <<<<0, -1, 0>>, <<1, -1, 0>>, <<0, 0, 1>>>>
Rot6z == <<<<1, -1, 0>>, <<1, 0, 0>>, <<0, 0, 1>>>>
Rot3d == <<<<0, 0, 1>>, <<1, 0, 0>>, <<0, 1, 0>>>>
Rot2d == <<<<0, 1, 0>>, <<1, 0, 0>>, <<0, 0, -1>>>>

Neg(m) == MatScale(-1, m)

\* the smallest set of matrices that holds rotations and all products of its members
RECURSIVE generated(_)
generated(rotations) ==
    LET products == rotations \cup {MatMul(a, b) : a \in rotations, b \in rotations}
    IN  IF products = rotations THEN rotations ELSE generated(products)

RECURSIVE SetToSeq(_)
SetToSeq(set) ==
    IF set = {} THEN <<>>
    ELSE LET x == CHOOSE y \in set : TRUE IN <<x>> \o SetToSeq(set \ {x})

\* the operators of the point group with the generators given, in some order
PointGroupList(generators) ==
    SetToSeq({SymmetryOperator(r, zero_vector) : r \in generated(generators \cup {identity})})

PointGroupGenerators ==
    {{identity}, {inversion},
     {Rot2y}, {Neg(Rot2y)}, {Rot2y, inversion},
     {Rot2z, Rot2x}, {Rot2z, Neg(Rot2x)}, {Rot2z, Rot2x, inversion},
     {Rot4z}, {Neg(Rot4z)}, {Rot4z, inversion}, {Rot4z, Rot2x}, {Rot4z, Neg(Rot2x)},
     {Neg(Rot4z), Rot2x}, {Rot4z, Rot2x, inversion},
     {Rot3z}, {Rot3z, inversion}, {Rot3z, Rot2d}, {Rot3z, Neg(Rot2d)}, {Rot3z, Rot2d, inversion},
     {Rot6z}, {Neg(Rot6z)}, {Rot6z, inversion}, {Rot6z, Rot2d}, {Rot6z, Neg(Rot2d)},
     {Neg(Rot6z), Rot2d}, {Rot6z, Rot2d, inversion},
     {Rot2z, Rot2x, Rot3d}, {Rot2z, Rot2x, Rot3d, inversion}, {Rot4z, Rot3d},
     {Neg(Rot4z), Rot3d}, {Rot4z, Rot3d, inversion}}

PointGroupLists == {PointGroupList(g) : g \in PointGroupGenerators}

\* the list with a copy of every operator moved by the centring vector c
Centred(ops, c) == ops \o [i \in 1..Len(ops) |-> OpMul(SymmetryOperator(identity, c), ops[i])]

\* body-centred and C-centred groups, and groups whose inversion centre is off the origin
CentredLists ==
    {Centred(PointGroupList(g), Vector3D(2, 2, 2)) :
        g \in {{Rot2z, Rot2x}, {Rot4z}, {Rot2z, Neg(Rot2x)}, {inversion}}}
    \cup StandardGroups
    \cup {<<OpIdentity, OpInversionQuarter>>, <<OpIdentity, OpScrew>>}

SystemInputs == PointGroupLists \cup CentredLists

InitSystem ==
    /\ sg_pc = "new"
    /\ sg_input \in SystemInputs
    /\ sg_error = ""
    /\ sg_last = ""
    /\ symmetry_operators_ = <<>>
    /\ representative_symmetry_operators_ = <<>>
    /\ centring_vectors_ = <<>>
    /\ has_inversion_ = FALSE
    /\ has_inversion_at_origin_ = FALSE
    /\ position_of_inversion_ = zero_vector
    /\ LatIdle
    /\ CSIdle
    /\ SSIdle
    /\ XSIdle
    /\ CLIdle
    /\ FMIdle

NextSystem ==
    \/ P21c
    \/ SpaceGroup_from_list
    \/ add_inversion_at_origin
    \/ apply_similarity_transformation
    \/ crystal_system

SpecSystem == InitSystem /\ [][NextSystem]_vars

(***************************************************************************)
(* crystal_system as a function of the representative operators alone: the *)
(* lists given are the beginnings of the representative lists of the point *)
(* groups, which include lists that no closed operator list decomposes to. *)
(***************************************************************************)
RepresentativeLists ==
    {representatives(identity_first(ops), 1, <<>>) : ops \in PointGroupLists}

TallyLists == UNION {{SubSeq(reps, 1, k) : k \in 1..Len(reps)} : reps \in RepresentativeLists}

InitTally ==
    /\ sg_pc = "given"
    /\ representative_symmetry_operators_ \in TallyLists
    /\ sg_input = <<>>
    /\ sg_error = ""
    /\ sg_last = ""
    /\ symmetry_operators_ = <<>>
    /\ centring_vectors_ = <<>>
    /\ has_inversion_ = FALSE
    /\ has_inversion_at_origin_ = FALSE
    /\ position_of_inversion_ = zero_vector
    /\ LatIdle
    /\ CSIdle
    /\ SSIdle
    /\ XSIdle
    /\ CLIdle
    /\ FMIdle

NextTally == crystal_system

SpecTally == InitTally /\ [][NextTally]_vars

(***************************************************************************)
(* Properties of crystal_system and P21c.                                  *)
(***************************************************************************)
OperatorSet(ops) == {ops[i] : i \in 1..Len(ops)}

\* C12: SpaceGroup::P21c() yields exactly the four operators of P21/c
\* ( x,y,z ; -x,-y,-z ; -x,1/2+y,1/2-z ; x,1/2-y,1/2+z ), no centring vectors,
\* an inversion at the origin, two representative operators, and the crystal
\* system "monoclinic".
C12_P21c ==
    sg_last = "P21c" =>
        /\ sg_pc = "constructed"
        /\ Len(symmetry_operators_) = 4
        /\ OperatorSet(symmetry_operators_) = {OpIdentity, OpInversion, OpScrew, OpGlide}
        /\ centring_vectors_ = <<>>
        /\ has_inversion_at_origin_
        /\ Len(representative_symmetry_operators_) = 2
        /\ crystal_system_name(representative_symmetry_operators_) = "monoclinic"

C12_Witness ==
    /\ sg_last = "P21c"
    /\ sg_pc = "constructed"
    /\ has_inversion_
    /\ OpGlide \in OperatorSet(symmetry_operators_)

\* how many of the representatives have a rotation of order k, the sign ignored
NumberOfOrder(k) ==
    Cardinality({i \in 1..Len(representative_symmetry_operators_) :
                    abs(rotation_part_type(representative_symmetry_operators_[i])) = k})

\* C13: crystal_system() returns "triclinic" for a single representative; otherwise
\* the first rule that matches of: 8 of order 3 cubic, 2 of order 6 hexagonal, 2 of
\* order 3 trigonal, 2 of order 4 tetragonal, 3 of order 2 orthorhombic, 1 of order 2
\* monoclinic; and it raises an error when none matches.
C13_PriorityRules ==
    sg_last = "crystal_system" =>
        cs_result =
            (CASE Len(representative_symmetry_operators_) = 1 -> "triclinic"
               [] Len(representative_symmetry_operators_) # 1 /\ NumberOfOrder(3) = 8 -> "cubic"
               [] OTHER ->
                    (CASE NumberOfOrder(6) = 2 -> "hexagonal"
                       [] NumberOfOrder(6) # 2 /\ NumberOfOrder(3) = 2 -> "trigonal"
                       [] OTHER ->
                            (CASE NumberOfOrder(4) = 2 -> "tetragonal"
                               [] NumberOfOrder(4) # 2 /\ NumberOfOrder(2) = 3 -> "orthorhombic"
                               [] NumberOfOrder(4) # 2 /\ NumberOfOrder(2) = 1 -> "monoclinic"
                               [] OTHER -> "error")))

C13_Witness ==
    /\ sg_last = "crystal_system"
    /\ cs_result = "error"
    /\ NumberOfOrder(2) = 2
    /\ NumberOfOrder(3) = 0

CrystalSystems ==
    {"triclinic", "monoclinic", "orthorhombic", "tetragonal", "trigonal", "hexagonal", "cubic"}

\* C14: for every SpaceGroup constructed from a closed operator list whose rotations
\* form a crystallographic point group (with or without centring vectors or
\* inversion), crystal_system() returns one of the seven system names and does
\* not raise.
C14_NoError ==
    (sg_pc = "constructed" /\ sg_last = "crystal_system") => cs_result \in CrystalSystems

C14_Witness ==
    /\ sg_pc = "constructed"
    /\ sg_last = "crystal_system"
    /\ cs_result = "cubic"
    /\ has_inversion_
    /\ Len(symmetry_operators_) = 48

\* C15: when apply_similarity_transformation( S ) maps the operator set onto itself,
\* crystal_system() returns the same before and after, and the numbers of operators
\* and of representative operators do not change.
C15_SystemStable ==
    [][(apply_similarity_transformation
            /\ OperatorSet(symmetry_operators_') = OperatorSet(symmetry_operators_)) =>
          /\ crystal_system_name(representative_symmetry_operators_')
                = crystal_system_name(representative_symmetry_operators_)
          /\ Len(symmetry_operators_') = Len(symmetry_operators_)
          /\ Len(representative_symmetry_operators_')
                = Len(representative_symmetry_operators_)]_vars

\* a transformation of SimilarityOps has just permuted the operators of the group
C15_Witness ==
    /\ sg_pc = "constructed"
    /\ sg_last = "apply_similarity_transformation"
    /\ Len(symmetry_operators_) >= 8
    /\ \E S \in SimilarityOps :
          LET before == similarity_transformed(OpInverse(S), symmetry_operators_)
          IN  /\ before # symmetry_operators_
              /\ OperatorSet(before) = OperatorSet(symmetry_operators_)

(***************************************************************************)
(* deduce_lattice_system.  Cell lengths are whole numbers of some unit and *)
(* cell angles whole degrees; on these nearly_equal is equality.           *)
(***************************************************************************)
angle_90_degrees == 90

angle_120_degrees == 120

deduce_lattice_system(crystal_lattice) ==
    LET angles_equal == /\ nearly_equal(crystal_lattice.alpha, crystal_lattice.beta)
                        /\ nearly_equal(crystal_lattice.alpha, crystal_lattice.gamma)
        ab_equal == nearly_equal(crystal_lattice.a, crystal_lattice.b)
        alpha_is_90 == nearly_equal(crystal_lattice.alpha, angle_90_degrees)
        beta_is_90 == nearly_equal(crystal_lattice.beta, angle_90_degrees)
        gamma_is_90 == nearly_equal(crystal_lattice.gamma, angle_90_degrees)
    IN  IF angles_equal /\ alpha_is_90 /\ ab_equal /\ nearly_equal(crystal_lattice.a, crystal_lattice.c)
        THEN "CUBIC"
        ELSE IF angles_equal /\ alpha_is_90 /\ ab_equal THEN "TETRAGONAL"
        ELSE IF angles_equal /\ alpha_is_90 THEN "ORTHORHOMBIC"
        ELSE IF angles_equal /\ ab_equal /\ nearly_equal(crystal_lattice.a, crystal_lattice.c)
        THEN "RHOMBOHEDRAL"
        ELSE IF /\ ab_equal /\ alpha_is_90 /\ beta_is_90
                /\ nearly_equal(crystal_lattice.gamma, angle_120_degrees)
        THEN "HEXAGONAL"
        ELSE IF \/ alpha_is_90 /\ beta_is_90
                \/ alpha_is_90 /\ gamma_is_90
                \/ beta_is_90 /\ gamma_is_90
        THEN "MONOCLINIC"
        ELSE "TRICLINIC"

\* the cell lengths and the cell angles (degrees) the cells are made of
CellLengths == {4, 5, 6}

CellAngles == {60, 90, 100, 120}

\* the cells with a volume: each angle smaller than the sum of the other two, the sum under 360
Cells ==
    {cell \in [a : CellLengths, b : CellLengths, c : CellLengths,
               alpha : CellAngles, beta : CellAngles, gamma : CellAngles] :
        /\ cell.alpha + cell.beta + cell.gamma < 360
        /\ cell.alpha < cell.beta + cell.gamma
        /\ cell.beta < cell.alpha + cell.gamma
        /\ cell.gamma < cell.alpha + cell.beta}

\* CrystalLattice::CrystalLattice( a, b, c, alpha, beta, gamma ): the part that classifies
CrystalLattice_from_parameters ==
    /\ cl_pc = "new"
    /\ cl_pc' = "constructed"
    /\ lattice_system_' = deduce_lattice_system(cl_cell)
    /\ UNCHANGED <<cl_cell, sgVars, latVars, csVars, fmVars, ssVars, xsVars>>

InitCell ==
    /\ cl_pc = "new"
    /\ cl_cell \in Cells
    /\ lattice_system_ = ""
    /\ SGIdle
    /\ LatIdle
    /\ CSIdle
    /\ SSIdle
    /\ XSIdle
    /\ FMIdle

NextCell == CrystalLattice_from_parameters

SpecCell == InitCell /\ [][NextCell]_vars

\* C19: deduce_lattice_system returns HEXAGONAL for every cell with two angles of 90
\* degrees, the third of 120 degrees, and equal lengths of the two axes that enclose
\* the 120-degree angle, whichever of alpha, beta, gamma that angle is.
C19_HexagonalAnyAxis ==
    cl_pc = "constructed" =>
        LET cell == cl_cell
        IN  (\/ cell.alpha = 120 /\ cell.beta = 90 /\ cell.gamma = 90 /\ cell.b = cell.c
             \/ cell.beta = 120 /\ cell.alpha = 90 /\ cell.gamma = 90 /\ cell.a = cell.c
             \/ cell.gamma = 120 /\ cell.alpha = 90 /\ cell.beta = 90 /\ cell.a = cell.b)
            => lattice_system_ = "HEXAGONAL"

\* C20: every SpaceGroup whose construction and decomposition succeeded holds exactly
\* one operator with identity rotation and zero translation: a list without the
\* identity, or with the identity more than once, yields no constructed group.
C20_ExactlyOneIdentity ==
    (sg_pc = "constructed" /\ sg_last = "SpaceGroup") =>
        Cardinality({i \in 1..Len(symmetry_operators_) :
                        IsIdentityOperator(symmetry_operators_[i])}) = 1

(***************************************************************************)
(* find_match, RMSCD_with_matching and                                     *)
(* root_mean_square_Cartesian_displacement.                                *)
(* A CrystalStructure is its lattice, the operators of its space group and *)
(* its atoms (element and fractional position, in 1/One).  Distances are   *)
(* kept squared, as in shortest_distance above; the square root the code   *)
(* takes does not change which of two distances is the smaller.            *)
(***************************************************************************)
CrystalStructure(crystal_lattice, space_group, atoms) ==
    [crystal_lattice |-> crystal_lattice, space_group |-> space_group, atoms |-> atoms]

Atom(element, position) == [element |-> element, position |-> position]

\* CrystalStructure::natoms
natoms(crystal_structure) == Len(crystal_structure.atoms)

\* Element::is_H_or_D
is_H_or_D(element) == element \in {"H", "D"}

\* SymmetryOperator * Vector3D
OpApply(op, v) == VecAdd(MatVec(op.rotation, v), op.translation)

\* SpaceGroup::has_inversion_at_origin of a space group held as its operator list
has_inversion_at_origin(space_group) == decompose(space_group, zero_vector).has_inversion_at_origin

\* the lattice of the averaged cell parameters; the structures compared here have
\* the same setting, so the average of the basis vectors is that lattice
average_lattice(lhs_lattice, rhs_lattice) ==
    CrystalLattice([i \in 1..3 |-> (lhs_lattice.a_vector[i] + rhs_lattice.a_vector[i]) \div 2],
                   [i \in 1..3 |-> (lhs_lattice.b_vector[i] + rhs_lattice.b_vector[i]) \div 2],
                   [i \in 1..3 |-> (lhs_lattice.c_vector[i] + rhs_lattice.c_vector[i]) \div 2])

\* find_match: the list shifts; entry i1*n*n + i2*n + i3 (counted from 0) is
\* floating_axes_correction + ( i1/n, i2/n, i3/n ), n = shift_steps
shifts_of_find_match(shift_steps, floating_axes_correction) ==
    IF shift_steps = 0 \/ shift_steps = 1 THEN <<floating_axes_correction>>
    ELSE [n \in 1..(shift_steps * shift_steps * shift_steps) |->
            VecAdd(floating_axes_correction,
                   Vector3D((((n - 1) \div (shift_steps * shift_steps)) * One) \div shift_steps,
                            ((((n - 1) \div shift_steps) % shift_steps) * One) \div shift_steps,
                            (((n - 1) % shift_steps) * One) \div shift_steps))]

\* RMSCD_with_matching: the list shifts
shifts_of_RMSCD_with_matching(add_shifts) ==
    IF ~add_shifts THEN <<zero_vector>>
    ELSE <<zero_vector, Vector3D(One \div 2, 0, 0), Vector3D(One \div 2, One \div 2, 0),
           Vector3D(One \div 2, 0, One \div 2), Vector3D(0, One \div 2, 0),
           Vector3D(0, One \div 2, One \div 2), Vector3D(0, 0, One \div 2),
           Vector3D(One \div 2, One \div 2, One \div 2)>>

\* double smallest_distance( 10000.0 ), squared and in the units of the model
smallest_distance_start == (10000 * 10000) * (One * One)

\* the locals of one pass of the loop over i, before the loops over j, k and m;
\* indices count from 1, so matching_index = natoms + 1 of the code is natoms + 2
NothingFound(lhs_atom, rhs) ==
    [counted |-> TRUE, smallest_distance |-> smallest_distance_start,
     matching_index |-> natoms(rhs) + 2, best_match |-> zero_vector,
     best_symmetry_operator |-> 1, best_shift |-> 1]

\* the loop over m (shifts) for one atom of lhs, one atom of rhs and one operator,
\* from shift m on: a candidate replaces the best one when it is strictly nearer.
\* (The singleton sets bind the value of each step before the next one reads it.)
RECURSIVE nearest_shift(_, _, _, _, _, _, _, _, _)
nearest_shift(crystal_lattice, lhs_atom, rhs, symmetry_operators, shifts, j, k, m, best) ==
    IF m > Len(shifts) THEN best
    ELSE LET current_position ==
                 OpApply(symmetry_operators[k], VecAdd(rhs.atoms[j].position, shifts[m]))
         IN  CHOOSE result \in
                 {nearest_shift(crystal_lattice, lhs_atom, rhs, symmetry_operators, shifts, j, k,
                                m + 1,
                                IF found.output_distance2 < best.smallest_distance
                                THEN [counted |-> TRUE,
                                      smallest_distance |-> found.output_distance2,
                                      matching_index |-> j,
                                      best_match |-> VecAdd(lhs_atom.position,
                                                            found.output_difference_vector),
                                      best_symmetry_operator |-> k, best_shift |-> m]
                                ELSE best) :
                     found \in {shortest_distance(crystal_lattice, lhs_atom.position,
                                                  current_position)}} : TRUE

\* the loop over k (operators) for one atom of lhs and one atom of rhs, from operator k on
RECURSIVE nearest_operator(_, _, _, _, _, _, _, _)
nearest_operator(crystal_lattice, lhs_atom, rhs, symmetry_operators, shifts, j, k, best) ==
    IF k > Len(symmetry_operators) THEN best
    ELSE CHOOSE result \in
             {nearest_operator(crystal_lattice, lhs_atom, rhs, symmetry_operators, shifts, j,
                               k + 1, b) :
                 b \in {nearest_shift(crystal_lattice, lhs_atom, rhs, symmetry_operators, shifts,
                                      j, k, 1, best)}} : TRUE

\* the loop over j (atoms of rhs) for one atom of lhs, from atom j on: atoms of
\* another element are passed over
RECURSIVE nearest(_, _, _, _, _, _, _)
nearest(crystal_lattice, lhs_atom, rhs, symmetry_operators, shifts, j, best) ==
    IF j > natoms(rhs) THEN best
    ELSE IF lhs_atom.element # rhs.atoms[j].element
    THEN nearest(crystal_lattice, lhs_atom, rhs, symmetry_operators, shifts, j + 1, best)
    ELSE CHOOSE result \in
             {nearest(crystal_lattice, lhs_atom, rhs, symmetry_operators, shifts, j + 1, b) :
                 b \in {nearest_operator(crystal_lattice, lhs_atom, rhs, symmetry_operators,
                                         shifts, j, 1, best)}} : TRUE

\* find_match: what each atom of lhs found; a hydrogen is passed over and counts
\* for nothing
votes_of_find_match(crystal_lattice, lhs, rhs, symmetry_operators, shifts) ==
    [i \in 1..natoms(lhs) |->
        IF is_H_or_D(lhs.atoms[i].element)
        THEN [NothingFound(lhs.atoms[i], rhs) EXCEPT !.counted = FALSE]
        ELSE nearest(crystal_lattice, lhs.atoms[i], rhs, symmetry_operators, shifts, 1,
                     NothingFound(lhs.atoms[i], rhs))]

\* RMSCD_with_matching: what each atom of lhs found, hydrogens included
matches_of_RMSCD_with_matching(crystal_lattice, lhs, rhs, symmetry_operators, shifts) ==
    [i \in 1..natoms(lhs) |->
        nearest(crystal_lattice, lhs.atoms[i], rhs, symmetry_operators, shifts, 1,
                NothingFound(lhs.atoms[i], rhs))]

\* symmetry_operators_frequencies after the loop over i
symmetry_operators_frequencies(votes, size) ==
    [k \in 1..size |->
        Cardinality({i \in DOMAIN votes : votes[i].counted /\ votes[i].best_symmetry_operator = k})]

\* shifts_frequencies after the loop over i
shifts_frequencies(votes, size) ==
    [m \in 1..size |->
        Cardinality({i \in DOMAIN votes : votes[i].counted /\ votes[i].best_shift = m})]

\* the two loops that look for the greatest frequency: a later entry replaces the
\* most common one when its frequency is strictly greater
RECURSIVE most_common(_, _, _, _)
most_common(frequencies, i, most_common_index, most_common_frequency) ==
    IF i > Len(frequencies) THEN most_common_index
    ELSE IF frequencies[i] > most_common_frequency
    THEN most_common(frequencies, i + 1, i, frequencies[i])
    ELSE most_common(frequencies, i + 1, most_common_index, most_common_frequency)

\* the sum of the positions of the atoms (centre_of_mass times the number of atoms)
RECURSIVE sum_of_positions(_, _)
sum_of_positions(atoms, i) ==
    IF i > Len(atoms) THEN zero_vector
    ELSE VecAdd(atoms[i].position, sum_of_positions(atoms, i + 1))

\* round_to_int of numerator / denominator (denominator > 0): the nearest integer,
\* either neighbour when the quotient lies halfway
round_to_int(numerator, denominator) ==
    LET floor == IF numerator >= 0 THEN numerator \div denominator
                 ELSE -((-numerator + denominator - 1) \div denominator)
        twice_rest == 2 * (numerator - floor * denominator)
    IN  IF twice_rest < denominator THEN {floor}
        ELSE IF twice_rest > denominator THEN {floor + 1}
        ELSE {floor, floor + 1}

\* the values integer_shifts can be left with: lhs.centre_of_mass() minus
\* result * rhs.centre_of_mass(), each coordinate rounded
integer_shifts_of(lhs, rhs, result) ==
    LET n == natoms(lhs)
        difference == VecSub(VecSub(sum_of_positions(lhs.atoms, 1),
                                    MatVec(result.rotation, sum_of_positions(rhs.atoms, 1))),
                             VecScale(n, result.translation))
    IN  {<<x, y, z>> : x \in round_to_int(difference[1], n * One),
                       y \in round_to_int(difference[2], n * One),
                       z \in round_to_int(difference[3], n * One)}

\* the operators find_match searches: those of rhs, with the inversion added on request
space_group_of_find_match(rhs, add_inversion) ==
    IF add_inversion /\ ~has_inversion_at_origin(rhs.space_group)
    THEN with_inversion(rhs.space_group, 1, <<>>)
    ELSE rhs.space_group

\* a result that leaves the most common shift out of its translation
result_of_find_match_without_shift(symmetry_operators, shifts, votes) ==
    LET most_common_space_group_index ==
            most_common(symmetry_operators_frequencies(votes, Len(symmetry_operators)), 1,
                        Len(symmetry_operators) + 1, 0)
        chosen == symmetry_operators[most_common_space_group_index]
    IN  SymmetryOperator(chosen.rotation, chosen.translation)

\* SymmetryOperator result( rotation, rotation * shifts[ most_common_shift_index ] + translation )
result_of_find_match(symmetry_operators, shifts, votes) ==
    LET most_common_space_group_index ==
            most_common(symmetry_operators_frequencies(votes, Len(symmetry_operators)), 1,
                        Len(symmetry_operators) + 1, 0)
        most_common_shift_index ==
            most_common(shifts_frequencies(votes, Len(shifts)), 1, Len(shifts) + 1, 0)
        chosen == symmetry_operators[most_common_space_group_index]
    IN  SymmetryOperator(chosen.rotation,
                         VecAdd(MatVec(chosen.rotation, shifts[most_common_shift_index]),
                                chosen.translation))

FindMatchMessage == "find_match(): numbers of atoms are not the same."

MatchingMessage == "RMSCD_with_matching(): numbers of atoms are not the same."

TwoMatchesMessage == "RMSCD_with_matching(): an atom has two matches."

DisplacementMessage ==
    "root_mean_square_Cartesian_displacement(): number of atoms is not the same."

ElementsMessage == "root_mean_square_Cartesian_displacement(): elements are not the same."

\* the function throws: nothing is returned and the caller's vector is as it was
Throws(function, message) ==
    /\ fm_pc' = "failed"
    /\ fm_function' = function
    /\ fm_error' = message
    /\ UNCHANGED <<fm_lhs, fm_rhs, fm_arguments, integer_shifts, fm_votes, fm_result>>

\* the function returns result and leaves the caller's vector alone
Returns(function, result) ==
    /\ fm_pc' = "returned"
    /\ fm_function' = function
    /\ fm_result' = result
    /\ UNCHANGED <<fm_lhs, fm_rhs, fm_arguments, integer_shifts, fm_votes, fm_error>>

\* the function throws after its search: what each atom found is kept for inspection
ThrowsAfterSearch(function, message, votes) ==
    /\ fm_pc' = "failed"
    /\ fm_function' = function
    /\ fm_error' = message
    /\ fm_votes' = votes
    /\ UNCHANGED <<fm_lhs, fm_rhs, fm_arguments, integer_shifts, fm_result>>

\* the function returns result after its search and leaves the caller's vector alone
ReturnsAfterSearch(function, result, votes) ==
    /\ fm_pc' = "returned"
    /\ fm_function' = function
    /\ fm_result' = result
    /\ fm_votes' = votes
    /\ UNCHANGED <<fm_lhs, fm_rhs, fm_arguments, integer_shifts, fm_error>>

\* an access beyond the end of a std::vector ends the program
Crashes(function, votes) ==
    /\ fm_pc' = "crashed"
    /\ fm_function' = function
    /\ fm_votes' = votes
    /\ UNCHANGED <<fm_lhs, fm_rhs, fm_arguments, integer_shifts, fm_result, fm_error>>

\* an atom that was searched for found no atom of its element, so that
\* matching_index is still natoms + 1 when done[ matching_index ] is read and written
BeyondDone(rhs, votes) ==
    \E i \in DOMAIN votes : votes[i].counted /\ votes[i].matching_index > natoms(rhs)

\* no atom voted: both tallies are zero throughout and each index of the most
\* common entry is still the size of its tally when the operator and the shift are read
NoVote(votes) == \A i \in DOMAIN votes : ~votes[i].counted

\* what find_match can build its result from when it reads the operator and the
\* shift behind the end of their vectors: whatever the memory there holds
BeyondTheEnd ==
    {SymmetryOperator(identity, zero_vector),
     SymmetryOperator(Rot2y, Vector3D(1, 2, 3))}

\* a find_match that empties integer_shifts before it compares the numbers of atoms
find_match_clearing_first ==
    /\ fm_pc = "called"
    /\ IF natoms(fm_rhs) # natoms(fm_lhs)
       THEN /\ fm_pc' = "failed"
            /\ fm_function' = "find_match"
            /\ fm_error' = FindMatchMessage
            /\ integer_shifts' = <<>>
            /\ UNCHANGED <<fm_lhs, fm_rhs, fm_arguments, fm_votes, fm_result>>
       ELSE Returns("find_match", OpIdentity)
    /\ UNCHANGED <<sgVars, latVars, csVars, clVars, ssVars, xsVars>>

\* find_match( lhs, rhs, shift_steps, integer_shifts, add_inversion, correct_floating_axes ),
\* called with correct_floating_axes = false, so floating_axes_correction stays zero
find_match ==
    /\ fm_pc = "called"
    /\ IF natoms(fm_rhs) # natoms(fm_lhs) THEN Throws("find_match", FindMatchMessage)
       ELSE IF natoms(fm_rhs) = 0 THEN Returns("find_match", OpIdentity)
       ELSE \E crystal_lattice \in {average_lattice(fm_lhs.crystal_lattice, fm_rhs.crystal_lattice)},
               space_group \in {space_group_of_find_match(fm_rhs, fm_arguments.add_inversion)},
               shifts \in {shifts_of_find_match(fm_arguments.shift_steps, zero_vector)} :
               \E votes \in {votes_of_find_match(crystal_lattice, fm_lhs, fm_rhs, space_group, shifts)} :
                   \/ /\ BeyondDone(fm_rhs, votes) \/ NoVote(votes)
                      /\ Crashes("find_match", votes)
                   \/ \E result \in (IF NoVote(votes) THEN BeyondTheEnd
                                     ELSE {result_of_find_match(space_group, shifts, votes)}) :
                          /\ fm_pc' = "returned"
                          /\ fm_function' = "find_match"
                          /\ fm_votes' = votes
                          /\ fm_result' = result
                          /\ integer_shifts' \in integer_shifts_of(fm_lhs, fm_rhs, result)
                          /\ UNCHANGED <<fm_lhs, fm_rhs, fm_arguments, fm_error>>
    /\ UNCHANGED <<sgVars, latVars, csVars, clVars, ssVars, xsVars>>

\* RMSCD_with_matching: an atom of rhs was already taken by an earlier atom of lhs
\* when an atom of lhs that is no hydrogen finds it
TwoMatches(lhs, matches) ==
    \E i \in DOMAIN matches :
        /\ ~is_H_or_D(lhs.atoms[i].element)
        /\ \E earlier \in 1..(i - 1) : matches[earlier].matching_index = matches[i].matching_index

\* done[ matching_index ] is read behind the end of done for an atom of lhs that
\* is no hydrogen: the value read decides whether the function throws
BeyondDoneRead(lhs, rhs, matches) ==
    \E i \in DOMAIN matches :
        ~is_H_or_D(lhs.atoms[i].element) /\ matches[i].matching_index > natoms(rhs)

\* the sum of the squared displacements of the atoms that are no hydrogens, and
\* their number: the value returned is the square root of the quotient, or 0.0
\* when there is no such atom
RECURSIVE sum_of_squares(_, _, _)
sum_of_squares(lhs, displacements, i) ==
    IF i > natoms(lhs) THEN [result |-> 0, nnon_H_atoms |-> 0]
    ELSE LET rest == sum_of_squares(lhs, displacements, i + 1)
         IN  IF is_H_or_D(lhs.atoms[i].element) THEN rest
             ELSE [result |-> rest.result + displacements[i],
                   nnon_H_atoms |-> rest.nnon_H_atoms + 1]

\* RMSCD_with_matching( lhs, rhs, add_shifts ); the file it saves is not kept
RMSCD_with_matching ==
    /\ fm_pc = "called"
    /\ IF natoms(fm_rhs) # natoms(fm_lhs) THEN Throws("RMSCD_with_matching", MatchingMessage)
       ELSE IF natoms(fm_rhs) = 0
       THEN Returns("RMSCD_with_matching", [result |-> 0, nnon_H_atoms |-> 0])
       ELSE \E crystal_lattice \in {average_lattice(fm_lhs.crystal_lattice, fm_rhs.crystal_lattice)} :
               \E matches \in {matches_of_RMSCD_with_matching(
                                    crystal_lattice, fm_lhs, fm_rhs, fm_rhs.space_group,
                                    shifts_of_RMSCD_with_matching(fm_arguments.add_shifts))} :
                   \/ /\ BeyondDone(fm_rhs, matches)
                      /\ Crashes("RMSCD_with_matching", matches)
                   \/ /\ TwoMatches(fm_lhs, matches) \/ BeyondDoneRead(fm_lhs, fm_rhs, matches)
                      /\ ThrowsAfterSearch("RMSCD_with_matching", TwoMatchesMessage, matches)
                   \/ /\ ~TwoMatches(fm_lhs, matches) \/ BeyondDone(fm_rhs, matches)
                      /\ ReturnsAfterSearch("RMSCD_with_matching",
                             sum_of_squares(fm_lhs,
                                 [i \in DOMAIN matches |->
                                     norm2(fractional_to_orthogonal(
                                               crystal_lattice,
                                               VecSub(fm_lhs.atoms[i].position,
                                                      matches[i].best_match)))], 1),
                             matches)
    /\ UNCHANGED <<sgVars, latVars, csVars, clVars, ssVars, xsVars>>

\* an atom of each structure at the same place in the list, of different elements
\* and not both hydrogens
ElementsDiffer(lhs, rhs) ==
    \E i \in 1..natoms(lhs) :
        /\ ~(is_H_or_D(lhs.atoms[i].element) /\ is_H_or_D(rhs.atoms[i].element))
        /\ lhs.atoms[i].element # rhs.atoms[i].element

\* root_mean_square_Cartesian_displacement( lhs, rhs )
root_mean_square_Cartesian_displacement ==
    /\ fm_pc = "called"
    /\ IF natoms(fm_lhs) # natoms(fm_rhs)
       THEN Throws("root_mean_square_Cartesian_displacement", DisplacementMessage)
       ELSE IF ElementsDiffer(fm_lhs, fm_rhs)
       THEN Throws("root_mean_square_Cartesian_displacement", ElementsMessage)
       ELSE Returns("root_mean_square_Cartesian_displacement",
                    sum_of_squares(fm_lhs,
                        [i \in 1..natoms(fm_lhs) |->
                            norm2(fractional_to_orthogonal(
                                      fm_lhs.crystal_lattice,
                                      VecSub(fm_lhs.atoms[i].position,
                                             fm_rhs.atoms[i].position)))], 1))
    /\ UNCHANGED <<sgVars, latVars, csVars, clVars, ssVars, xsVars>>

(***************************************************************************)
(* The callers' structures.  Both structures of a call have the same       *)
(* lattice and space group, and the atoms of rhs are those of lhs, in the  *)
(* same order and of the same elements, each moved in one of a few ways;   *)
(* or rhs lacks the last atom of lhs; or the last atom of rhs is of an     *)
(* element that lhs does not hold.                                         *)
(***************************************************************************)
CubicLattice == CrystalLattice(Vector3D(10, 0, 0), Vector3D(0, 10, 0), Vector3D(0, 0, 10))

\* half a cell along a and along c
HalfCellShifts == {Vector3D(One \div 2, 0, 0), Vector3D(0, 0, One \div 2)}

\* the atoms a structure is made of, in the order in which it lists them
AtomChoices == <<Atom("C", Vector3D(0, 0, 0)), Atom("C", Vector3D(2, 0, 2)),
                 Atom("C", Vector3D(1, 2, 3)), Atom("O", Vector3D(3, 1, 0)),
                 Atom("H", Vector3D(3, 1, 1))>>

\* most atoms of a structure
MaxAtoms == 2

AtomLists ==
    {[i \in DOMAIN chosen |-> AtomChoices[chosen[i]]] :
        chosen \in {c \in UNION {[1..n -> DOMAIN AtomChoices] : n \in 0..MaxAtoms} :
                       \A i, j \in DOMAIN c : i < j => c[i] < c[j]}}

\* the twofold axis along the diagonal of the ab plane
OpDiagonal == SymmetryOperator(Rot2d, zero_vector)

\* what can have happened to an atom between the two structures: nothing, a
\* displacement by half a cell, the rotation about the diagonal axis
Moved(position, move) ==
    IF move.rotated THEN OpApply(OpDiagonal, position) ELSE VecAdd(position, move.shift)

Displaced(shift) == [rotated |-> FALSE, shift |-> shift]

Moves == {Displaced(shift) : shift \in {zero_vector} \cup HalfCellShifts}
         \cup {[rotated |-> TRUE, shift |-> zero_vector]}

MovedLists(atoms) ==
    {[i \in DOMAIN atoms |-> Atom(atoms[i].element, Moved(atoms[i].position, moves[i]))] :
        moves \in [DOMAIN atoms -> Moves]}

\* the atoms with the element of the last one replaced by one the list does not hold
OtherElement(atoms) ==
    [i \in DOMAIN atoms |->
        IF i = Len(atoms) THEN Atom("N", atoms[i].position) ELSE atoms[i]]

RhsLists(atoms) ==
    MovedLists(atoms) \cup
    (IF atoms = <<>> THEN {}
     ELSE MovedLists(SubSeq(atoms, 1, Len(atoms) - 1)) \cup {OtherElement(atoms)})

MatchGroups == {<<OpIdentity>>, <<OpIdentity, OpInversion>>, <<OpIdentity, OpDiagonal>>}

MatchArguments ==
    {[shift_steps |-> 1, add_inversion |-> FALSE, correct_floating_axes |-> FALSE,
      add_shifts |-> FALSE],
     [shift_steps |-> 2, add_inversion |-> FALSE, correct_floating_axes |-> FALSE,
      add_shifts |-> TRUE],
     [shift_steps |-> 2, add_inversion |-> TRUE, correct_floating_axes |-> FALSE,
      add_shifts |-> TRUE]}

\* the vector the caller passes for integer_shifts: whatever it held before
CallersShifts == <<1>>

InitMatch ==
    /\ fm_pc = "called"
    /\ fm_function = ""
    /\ \E space_group \in MatchGroups, atoms \in AtomLists :
          /\ fm_lhs = CrystalStructure(CubicLattice, space_group, atoms)
          /\ fm_rhs \in {CrystalStructure(CubicLattice, space_group, moved) :
                            moved \in RhsLists(atoms)}
    /\ fm_arguments \in MatchArguments
    /\ integer_shifts = CallersShifts
    /\ fm_votes = <<>>
    /\ fm_result = ""
    /\ fm_error = ""
    /\ SGIdle
    /\ LatIdle
    /\ CSIdle
    /\ SSIdle
    /\ XSIdle
    /\ CLIdle

NextMatch ==
    \/ find_match
    \/ RMSCD_with_matching
    \/ root_mean_square_Cartesian_displacement

SpecMatch == InitMatch /\ [][NextMatch]_vars

(***************************************************************************)
(* Claims about find_match and the two RMSCD functions.                    *)
(***************************************************************************)
\* the operators and shifts the call of find_match in this state went through
SearchedOperators == space_group_of_find_match(fm_rhs, fm_arguments.add_inversion)

SearchedShifts == shifts_of_find_match(fm_arguments.shift_steps, zero_vector)

\* the operator and the shift the returned transformation was built from
ChosenOperator ==
    most_common(symmetry_operators_frequencies(fm_votes, Len(SearchedOperators)), 1,
                Len(SearchedOperators) + 1, 0)

ChosenShift ==
    most_common(shifts_frequencies(fm_votes, Len(SearchedShifts)), 1, Len(SearchedShifts) + 1, 0)

\* the number of atoms whose nearest image came from operator k with shift m
PairVotes(k, m) ==
    Cardinality({i \in DOMAIN fm_votes :
                    /\ fm_votes[i].counted
                    /\ fm_votes[i].best_symmetry_operator = k
                    /\ fm_votes[i].best_shift = m})

FindMatchVoted ==
    /\ fm_pc = "returned"
    /\ fm_function = "find_match"
    /\ \E i \in DOMAIN fm_votes : fm_votes[i].counted

\* C16: the operator and the shift find_match builds its result from are together
\* the (operator, shift) pair most atoms voted for; at least one atom voted for it
C16_WinningPair ==
    FindMatchVoted =>
        /\ PairVotes(ChosenOperator, ChosenShift) >= 1
        /\ \A k \in DOMAIN SearchedOperators, m \in DOMAIN SearchedShifts :
               PairVotes(ChosenOperator, ChosenShift) >= PairVotes(k, m)

\* the message each function throws when the numbers of atoms differ
CountMessage ==
    [find_match |-> FindMatchMessage,
     RMSCD_with_matching |-> MatchingMessage,
     root_mean_square_Cartesian_displacement |-> DisplacementMessage]

\* C17: when the two structures have different numbers of atoms, each of
\* find_match, RMSCD_with_matching and root_mean_square_Cartesian_displacement
\* throws its error; nothing is returned, no atom was searched for, and
\* integer_shifts is as the caller passed it
C17_CountChecked ==
    (fm_pc # "called" /\ natoms(fm_lhs) # natoms(fm_rhs)) =>
        /\ fm_pc = "failed"
        /\ fm_error = CountMessage[fm_function]
        /\ fm_result = ""
        /\ fm_votes = <<>>
        /\ integer_shifts = CallersShifts

\* find_match has thrown on two structures of two atoms and one; integer_shifts
\* still holds what the caller passed
C17_Witness ==
    /\ fm_pc = "failed"
    /\ fm_function = "find_match"
    /\ fm_error = FindMatchMessage
    /\ natoms(fm_lhs) = 2
    /\ natoms(fm_rhs) = 1
    /\ fm_arguments.shift_steps = 2
    /\ integer_shifts = CallersShifts
    /\ integer_shifts # <<>>

\* every atom of rhs is the atom of lhs at the same place in the list, displaced by shift
DisplacedBy(shift) ==
    /\ natoms(fm_rhs) = natoms(fm_lhs)
    /\ \A i \in 1..natoms(fm_lhs) :
          fm_rhs.atoms[i] = Atom(fm_lhs.atoms[i].element, VecAdd(fm_lhs.atoms[i].position, shift))

\* find_match has returned from a call with shift_steps = 2 and no added inversion
\* on two structures that differ by shift and have an atom that is no hydrogen
HalfCellScenario(shift) ==
    /\ fm_pc = "returned"
    /\ fm_function = "find_match"
    /\ fm_arguments.shift_steps = 2
    /\ ~fm_arguments.add_inversion
    /\ ~fm_arguments.correct_floating_axes
    /\ fm_lhs.space_group = fm_rhs.space_group
    /\ fm_lhs.crystal_lattice = fm_rhs.crystal_lattice
    /\ DisplacedBy(shift)
    /\ \E i \in 1..natoms(fm_lhs) : ~is_H_or_D(fm_lhs.atoms[i].element)

\* no atom of lhs lies, up to lattice translations, on the image under an operator
\* and a shift of the grid of another atom of rhs of its element
NoOtherImage ==
    \A i, j \in 1..natoms(fm_lhs) :
        (i # j /\ fm_lhs.atoms[i].element = fm_rhs.atoms[j].element) =>
            \A k \in DOMAIN SearchedOperators, m \in DOMAIN SearchedShifts :
                adjust_for_translations(
                    VecSub(OpApply(SearchedOperators[k],
                                   VecAdd(fm_rhs.atoms[j].position, SearchedShifts[m])),
                           fm_lhs.atoms[i].position)) # zero_vector

\* C18 as stated: whenever every atom of rhs is the corresponding atom of lhs
\* displaced by half a cell along one axis, find_match with shift_steps = 2
\* returns the identity rotation with that half-cell shift as translation
C18_HalfCellShiftAlways ==
    \A shift \in HalfCellShifts :
        HalfCellScenario(shift) => fm_result = SymmetryOperator(identity, shift)

\* C18: in the half-cell scenario find_match returns the identity rotation with
\* the half-cell shift as translation, provided no atom of the one structure lies
\* on an image of a non-corresponding atom of the same element of the other
C18_HalfCellShift ==
    \A shift \in HalfCellShifts :
        (HalfCellScenario(shift) /\ NoOtherImage) =>
            fm_result = SymmetryOperator(identity, shift)

\* two atoms of one element, a space group with the diagonal axis, every atom
\* displaced by half a cell along a: the result is x+1/2, y, z
C18_Witness ==
    /\ HalfCellScenario(Vector3D(One \div 2, 0, 0))
    /\ NoOtherImage
    /\ natoms(fm_lhs) = 2
    /\ fm_lhs.atoms[1].element = fm_lhs.atoms[2].element
    /\ Len(fm_lhs.space_group) = 2
    /\ fm_result = SymmetryOperator(identity, Vector3D(One \div 2, 0, 0))
    /\ \A i \in DOMAIN fm_votes : fm_votes[i].counted /\ fm_votes[i].smallest_distance = 0

\* ---------------------------------------------------------------------------
\* C21: after remove_duplicate_symmetry_operators no two remaining operators are
\* equal under the operator equality, every operator present before the call is
\* equal to some operator present after it, the operator at index 0 is unchanged,
\* the survivors keep their original relative order, and a second call changes
\* nothing.
C21_DuplicatesRemoved ==
    [][remove_duplicate_symmetry_operators =>
          LET old == symmetry_operators_
              new == symmetry_operators_'
          IN  /\ \A p, q \in 1..Len(new) : p # q => ~nearly_equal_op(new[p], new[q])
              /\ \A i \in 1..Len(old) : \E p \in 1..Len(new) : nearly_equal_op(old[i], new[p])
              /\ new[1] = old[1]
              /\ \A p, q \in 1..Len(new) :
                    p < q => \E i, j \in 1..Len(old) : i < j /\ old[i] = new[p] /\ old[j] = new[q]
              /\ without_duplicates(new, 2, <<new[1]>>) = new]_vars

C21_Witness ==
    /\ sg_pc = "constructed"
    /\ sg_last = "remove_duplicate_symmetry_operators"
    /\ Len(symmetry_operators_) >= 2
    /\ \A p, q \in 1..Len(symmetry_operators_) :
          p # q => ~nearly_equal_op(symmetry_operators_[p], symmetry_operators_[q])

\* ---------------------------------------------------------------------------
\* C22: representative_symmetry_operators is the subsequence of the operator list
\* (in operator order) that holds the first occurrence of each rotation class,
\* a rotation R and its negative -R being one class: no two representatives have
\* rotations that are equal or negatives of each other, the rotation of every
\* operator is plus or minus the rotation of exactly one representative, and
\* the first representative is operator 0.
SameRotationClass(r, s) == nearly_equal(r, s) \/ nearly_equal(r, MatScale(-1, s))

FirstOfRotationClass ==
    {i \in 1..Len(symmetry_operators_) :
        \A j \in 1..(i - 1) :
            ~SameRotationClass(symmetry_operators_[i].rotation, symmetry_operators_[j].rotation)}

C22_Representatives ==
    sg_pc = "constructed" =>
        LET ops == symmetry_operators_
            reps == representative_symmetry_operators_
        IN  /\ Len(reps) = Cardinality(FirstOfRotationClass)
            /\ \A i \in FirstOfRotationClass :
                  reps[Cardinality({k \in FirstOfRotationClass : k <= i})] = ops[i]
            /\ \A p, q \in 1..Len(reps) :
                  p # q => ~SameRotationClass(reps[p].rotation, reps[q].rotation)
            /\ \A i \in 1..Len(ops) :
                  Cardinality({p \in 1..Len(reps) :
                                  SameRotationClass(ops[i].rotation, reps[p].rotation)}) = 1
            /\ reps[1] = ops[1]

C22_Witness ==
    /\ sg_pc = "constructed"
    /\ has_inversion_
    /\ Len(representative_symmetry_operators_) >= 2
    /\ Len(symmetry_operators_) >= 2 * Len(representative_symmetry_operators_)
    /\ FirstOfRotationClass # 1..Len(representative_symmetry_operators_)

\* ---------------------------------------------------------------------------
\* C23: for every successfully constructed (closed) SpaceGroup the rotation list
\* point_group() hands to the classifier contains, as a set and each exactly
\* once, precisely the distinct rotation parts of all operators: the rotations of
\* the representatives, and their negatives exactly when has_inversion is true.
RotationParts == {symmetry_operators_[i].rotation : i \in 1..Len(symmetry_operators_)}

C23_PointGroupRotations ==
    [][point_group =>
          LET rotations == pg_rotations'
              listed == {rotations[i] : i \in 1..Len(rotations)}
              of_representatives == {representative_symmetry_operators_[i].rotation :
                                        i \in 1..Len(representative_symmetry_operators_)}
          IN  /\ listed = RotationParts
              /\ Cardinality(listed) = Len(rotations)
              /\ listed = of_representatives \cup
                             (IF has_inversion_
                              THEN {MatScale(-1, r) : r \in of_representatives} ELSE {})]_vars

C23_Witness ==
    /\ sg_pc = "constructed"
    /\ has_inversion_
    /\ Len(symmetry_operators_) > Cardinality(RotationParts)
    /\ Len(pg_rotations) = 4
    /\ {pg_rotations[i] : i \in 1..Len(pg_rotations)} = RotationParts

\* ---------------------------------------------------------------------------
\* C25: whenever find_match, called on structures with atoms, reads the winning
\* operator and the winning shift, both indices are valid, also when no vote was
\* cast because every atom of the reference structure is a hydrogen.
FindMatchSearched ==
    /\ fm_function = "find_match"
    /\ fm_pc \in {"returned", "crashed"}
    /\ natoms(fm_lhs) > 0

C25_WinningIndicesValid ==
    (FindMatchSearched /\ ~BeyondDone(fm_rhs, fm_votes)) =>
        /\ ChosenOperator \in DOMAIN SearchedOperators
        /\ ChosenShift \in DOMAIN SearchedShifts

\* C26: the matching_index that find_match and RMSCD_with_matching use to read and
\* write done[] is always the index of an atom, also when the reference structure
\* holds an element that the other structure lacks; and each atom searched for
\* votes for an operator and a shift that it has evaluated.
C26_MatchingIndexValid ==
    (fm_function \in {"find_match", "RMSCD_with_matching"} /\ fm_pc # "called") =>
        \A i \in DOMAIN fm_votes :
            fm_votes[i].counted =>
                /\ fm_votes[i].matching_index \in 1..natoms(fm_rhs)
                /\ fm_votes[i].smallest_distance < smallest_distance_start

\* C27: on every normal return of find_match integer_shifts holds exactly three
\* entries, computed by this call, whatever it held on entry; two structures
\* without atoms included.
C27_ThreeShifts ==
    (fm_function = "find_match" /\ fm_pc = "returned") => Len(integer_shifts) = 3

(***************************************************************************)
(* same_symmetry_operators( lhs, rhs ) on two constructed space groups.    *)
(***************************************************************************)
\* bool same_symmetry_operators( const SpaceGroup & lhs, const SpaceGroup & rhs ),
\* on the operator lists of the two groups
same_symmetry_operators_of(lhs, rhs) ==
    IF Len(lhs) # Len(rhs) THEN FALSE
    ELSE \A i \in 1..Len(lhs) : \E j \in 1..Len(rhs) : nearly_equal_op(lhs[i], rhs[j])

\* the call
same_symmetry_operators ==
    /\ ss_pc = "called"
    /\ ss_pc' = "returned"
    /\ ss_result' = IF same_symmetry_operators_of(ss_lhs, ss_rhs) THEN "true" ELSE "false"
    /\ UNCHANGED <<ss_lhs, ss_rhs, sgVars, latVars, csVars, clVars, fmVars, xsVars>>

\* the operator lists of the space groups the constructor accepts: the closed
\* lists that decompose, with the identity moved to the front
ConstructedLists ==
    {identity_first(ops) :
        ops \in {l \in InputLists :
                    check_if_closed(l) /\ decompose(identity_first(l), zero_vector).error = ""}}

InitSame ==
    /\ ss_pc = "called"
    /\ ss_lhs \in ConstructedLists
    /\ ss_rhs \in ConstructedLists
    /\ ss_result = ""
    /\ SGIdle
    /\ LatIdle
    /\ CSIdle
    /\ CLIdle
    /\ FMIdle
    /\ XSIdle

NextSame == same_symmetry_operators

SpecSame == InitSame /\ [][NextSame]_vars

\* C29: same_symmetry_operators is a comparison of the two sets of operators that
\* does not depend on their order, and it is symmetric: for all space groups A and
\* B that can be constructed, lists holding an operator twice included, the call
\* on (A, B) returns what the call on (B, A) returns, and it returns true exactly
\* when the two sets of operators are equal.
C29_SetComparison ==
    ss_pc = "returned" =>
        /\ (ss_result = "true") <=> (OperatorSet(ss_lhs) = OperatorSet(ss_rhs))
        /\ (ss_result = "true") <=> same_symmetry_operators_of(ss_rhs, ss_lhs)

(***************************************************************************)
(* CrystalStructure: the list of atoms and what add_atoms,                 *)
(* reduce_to_asymmetric_unit, apply_space_group_symmetry, supercell and    *)
(* collapse_supercell( u, v, w ) do to it.  Lengths are in Angstrom times  *)
(* One, squared distances in their square.                                 *)
(***************************************************************************)
\* most atoms a structure of the model grows to
MaxStructureAtoms == 16

\* longest and shortest cell edge a structure of the model gets, in Angstrom
MaxCellEdge == 20

MinCellEdge == 10

\* distance < numerator / denominator Angstrom, for a squared distance of the model
\* (an integer): denominator^2 * distance2 < numerator^2 * One^2
shorter_than(distance2, numerator, denominator) ==
    distance2 <= ((numerator * numerator * One * One) - 1) \div (denominator * denominator)

\* distance > numerator / denominator Angstrom
longer_than(distance2, numerator, denominator) ==
    distance2 > (numerator * numerator * One * One) \div (denominator * denominator)

\* std::vector< bool > of n entries, all false
all_false(n) == [i \in 1..n |-> FALSE]

\* CrystalStructure::shortest_distance2( lhs, rhs ): the shortest distance squared
\* between lhs and rhs or one of the images of rhs under the operators 1, 2, ...
structure_shortest_distance2(crystal_lattice, space_group, lhs, rhs) ==
    LET distances ==
            {shortest_distance2(crystal_lattice, lhs, rhs)} \cup
            {shortest_distance2(crystal_lattice, lhs, OpApply(space_group[k], rhs)) :
                k \in 2..Len(space_group)}
    IN  CHOOSE d \in distances : \A e \in distances : d <= e

\* reduce_to_asymmetric_unit, the loop over i: an atom that is no duplicate is kept
\* and marks as duplicates the later atoms of its element that lie within 0.001 A
\* of it or of one of its images
RECURSIVE asymmetric_unit(_, _, _, _, _, _)
asymmetric_unit(atoms, crystal_lattice, space_group, i, is_duplicate, new_atoms) ==
    IF i > Len(atoms) THEN new_atoms
    ELSE IF i \in is_duplicate
    THEN asymmetric_unit(atoms, crystal_lattice, space_group, i + 1, is_duplicate, new_atoms)
    ELSE LET found == {j \in (i + 1)..Len(atoms) :
                          /\ j \notin is_duplicate
                          /\ atoms[i].element = atoms[j].element
                          /\ shorter_than(structure_shortest_distance2(
                                              crystal_lattice, space_group,
                                              atoms[i].position, atoms[j].position),
                                          1, 1000)}
         IN  asymmetric_unit(atoms, crystal_lattice, space_group, i + 1,
                             is_duplicate \cup found, Append(new_atoms, atoms[i]))

\* apply_space_group_symmetry, the two loops: for each atom and each operator after
\* the first, the image of the atom, unless it lies within 0.1 A of the atom
symmetry_images(atoms, crystal_lattice, space_group) ==
    LET others == Len(space_group) - 1
        candidates ==
            [n \in 1..(Len(atoms) * others) |->
                LET original == atoms[((n - 1) \div others) + 1]
                    new_position == OpApply(space_group[((n - 1) % others) + 2], original.position)
                IN  [original_position |-> original.position,
                     new_atom |-> Atom(original.element, new_position)]]
        is_no_special_position(candidate) ==
            longer_than(shortest_distance(crystal_lattice, candidate.original_position,
                                          candidate.new_atom.position).output_distance2,
                        1, 10)
        taken == SelectSeq(candidates, is_no_special_position)
    IN  [n \in 1..Len(taken) |-> taken[n].new_atom]

\* CrystalLattice( a * u, b * v, c * w, alpha, beta, gamma )
scaled_lattice(crystal_lattice, u, v, w) ==
    CrystalLattice(VecScale(u, crystal_lattice.a_vector),
                   VecScale(v, crystal_lattice.b_vector),
                   VecScale(w, crystal_lattice.c_vector))

\* CrystalLattice( a / u, b / v, c / w, alpha, beta, gamma )
divided_lattice(crystal_lattice, u, v, w) ==
    CrystalLattice([m \in 1..3 |-> crystal_lattice.a_vector[m] \div u],
                   [m \in 1..3 |-> crystal_lattice.b_vector[m] \div v],
                   [m \in 1..3 |-> crystal_lattice.c_vector[m] \div w])

\* the cell edges can be divided by u, v and w within the model's integers
Divisible(crystal_lattice, u, v, w) ==
    /\ \A m \in 1..3 : crystal_lattice.a_vector[m] % u = 0
    /\ \A m \in 1..3 : crystal_lattice.b_vector[m] % v = 0
    /\ \A m \in 1..3 : crystal_lattice.c_vector[m] % w = 0

\* CrystalLattice::orthogonal_to_fractional, for a cell with its axes along x, y and z
orthogonal_to_fractional(crystal_lattice, input) ==
    <<input[1] \div crystal_lattice.a_vector[1],
      input[2] \div crystal_lattice.b_vector[2],
      input[3] \div crystal_lattice.c_vector[3]>>

\* supercell, the position of the copy of an atom in cell i, j, k: to orthogonal
\* coordinates in the old cell, the translation added, to fractional coordinates
\* in the new cell
supercell_position(crystal_lattice, new_crystal_lattice, position, i, j, k) ==
    orthogonal_to_fractional(
        new_crystal_lattice,
        VecAdd(fractional_to_orthogonal(crystal_lattice, position),
               VecScale(One, VecAdd(VecAdd(VecScale(i, crystal_lattice.a_vector),
                                           VecScale(j, crystal_lattice.b_vector)),
                                    VecScale(k, crystal_lattice.c_vector)))))

\* the positions of all copies lie on the grid of the model
Representable(atoms, u, v, w) ==
    \A l \in 1..Len(atoms) :
        /\ atoms[l].position[1] % u = 0
        /\ atoms[l].position[2] % v = 0
        /\ atoms[l].position[3] % w = 0

\* supercell, the four loops: cell after cell (i outermost, then j, then k), the
\* atoms in their order
supercell_atoms(atoms, crystal_lattice, new_crystal_lattice, u, v, w) ==
    [n \in 1..(Len(atoms) * u * v * w) |->
        LET l == ((n - 1) % Len(atoms)) + 1
            cell == (n - 1) \div Len(atoms)
            k == cell % w
            j == (cell \div w) % v
            i == cell \div (w * v)
        IN  Atom(atoms[l].element,
                 supercell_position(crystal_lattice, new_crystal_lattice,
                                    atoms[l].position, i, j, k))]

\* collapse_supercell( u, v, w ), the first loop and position_all_atoms_within_unit_cell
scaled_atoms(atoms, u, v, w) ==
    [i \in 1..Len(atoms) |->
        Atom(atoms[i].element,
             adjust_for_translations(<<u * atoms[i].position[1], v * atoms[i].position[2],
                                       w * atoms[i].position[3]>>))]

\* RunningAverageAndESD< Vector3D >::average of number values with the given sum
average(sum, number) == [m \in 1..3 |-> sum[m] \div number]

\* collapse_supercell( u, v, w ), the loop over j for one atom i: an atom that is
\* not done and lies within 0.3 A of the average so far is added to the average
RECURSIVE averaged_with(_, _, _, _)
averaged_with(atoms, crystal_lattice, j, so_far) ==
    IF j > Len(atoms) THEN so_far
    ELSE IF j \in so_far.done THEN averaged_with(atoms, crystal_lattice, j + 1, so_far)
    ELSE LET average_position == average(so_far.sum, so_far.natoms_for_average)
             nearest_image == shortest_distance(crystal_lattice, average_position,
                                                atoms[j].position)
         IN  IF shorter_than(nearest_image.output_distance2, 3, 10)
             THEN averaged_with(atoms, crystal_lattice, j + 1,
                      [done |-> so_far.done \cup {j},
                       sum |-> VecAdd(so_far.sum,
                                      VecAdd(average_position,
                                             nearest_image.output_difference_vector)),
                       natoms_for_average |-> so_far.natoms_for_average + 1])
             ELSE averaged_with(atoms, crystal_lattice, j + 1, so_far)

\* a collapse that keeps every copy
atoms_not_averaged(atoms, crystal_lattice, i, done, new_atoms) == atoms

\* collapse_supercell( u, v, w ), the loop over i
RECURSIVE averaged_atoms(_, _, _, _, _)
averaged_atoms(atoms, crystal_lattice, i, done, new_atoms) ==
    IF i > Len(atoms) THEN new_atoms
    ELSE IF i \in done THEN averaged_atoms(atoms, crystal_lattice, i + 1, done, new_atoms)
    ELSE CHOOSE result \in
             {averaged_atoms(atoms, crystal_lattice, i + 1, found.done,
                             Append(new_atoms,
                                    Atom(atoms[i].element,
                                         average(found.sum, found.natoms_for_average)))) :
                 found \in {averaged_with(atoms, crystal_lattice, i + 1,
                                          [done |-> done \cup {i}, sum |-> atoms[i].position,
                                           natoms_for_average |-> 1])}} : TRUE

SupercellMessage == "CrystalStructure::superstructure( u, v, w ): u, v, w cannot be 0."

\* CrystalStructure::add_atoms( atoms )
add_atoms(atoms) ==
    /\ xs_pc = "ready"
    /\ xs_last = ""
    /\ atoms_' = atoms_ \o atoms
    /\ suppressed_' = suppressed_ \o all_false(Len(atoms))
    /\ xs_last' = "add_atoms"
    /\ xs_error' = ""
    /\ UNCHANGED <<xs_pc, crystal_lattice_, space_group_,
                   space_group_symmetry_has_been_applied_, xs_supercell>>
    /\ UNCHANGED <<sgVars, latVars, csVars, clVars, fmVars, ssVars>>

\* CrystalStructure::reduce_to_asymmetric_unit
reduce_to_asymmetric_unit ==
    /\ xs_pc = "ready"
    /\ atoms_ # <<>>
    /\ atoms_' = asymmetric_unit(atoms_, crystal_lattice_, space_group_, 1, {}, <<>>)
    /\ space_group_symmetry_has_been_applied_' = FALSE
    /\ xs_last' = "reduce_to_asymmetric_unit"
    /\ xs_error' = ""
    /\ UNCHANGED <<xs_pc, suppressed_, crystal_lattice_, space_group_, xs_supercell>>
    /\ UNCHANGED <<sgVars, latVars, csVars, clVars, fmVars, ssVars>>

\* CrystalStructure::apply_space_group_symmetry
apply_space_group_symmetry ==
    /\ xs_pc = "ready"
    /\ atoms_ # <<>>
    /\ ~space_group_symmetry_has_been_applied_
    /\ Len(atoms_) * Len(space_group_) <= MaxStructureAtoms
    /\ \E atoms \in {symmetry_images(atoms_, crystal_lattice_, space_group_)} :
          /\ Len(suppressed_) + Len(atoms) <= MaxStructureAtoms
          /\ atoms_' = atoms_ \o atoms
          /\ suppressed_' = suppressed_ \o all_false(Len(atoms))
    /\ space_group_symmetry_has_been_applied_' = TRUE
    /\ xs_last' = "apply_space_group_symmetry"
    /\ xs_error' = ""
    /\ UNCHANGED <<xs_pc, crystal_lattice_, space_group_, xs_supercell>>
    /\ UNCHANGED <<sgVars, latVars, csVars, clVars, fmVars, ssVars>>

\* CrystalStructure::supercell( u, v, w ); add_atom is taken to add an entry to
\* suppressed_ as add_atoms does
supercell(u, v, w) ==
    /\ xs_pc = "ready"
    /\ atoms_ # <<>>
    /\ xs_supercell = <<>>
    /\ xs_last' = "supercell"
    /\ IF (u = 0) \/ (v = 0) \/ (w = 0)
       THEN /\ xs_error' = SupercellMessage
            /\ UNCHANGED <<atoms_, suppressed_, crystal_lattice_, space_group_,
                           space_group_symmetry_has_been_applied_, xs_supercell>>
       ELSE \E expanded \in {IF space_group_symmetry_has_been_applied_ THEN atoms_
                             ELSE atoms_ \o symmetry_images(atoms_, crystal_lattice_,
                                                            space_group_)},
               new_crystal_lattice \in {scaled_lattice(crystal_lattice_, u, v, w)} :
               /\ Len(expanded) * u * v * w <= MaxStructureAtoms
               /\ new_crystal_lattice.a_vector[1] <= MaxCellEdge
               /\ new_crystal_lattice.b_vector[2] <= MaxCellEdge
               /\ new_crystal_lattice.c_vector[3] <= MaxCellEdge
               /\ Representable(expanded, u, v, w)
               /\ atoms_' = supercell_atoms(expanded, crystal_lattice_, new_crystal_lattice,
                                            u, v, w)
               /\ suppressed_' = all_false(Len(expanded) * u * v * w)
               /\ crystal_lattice_' = new_crystal_lattice
               /\ space_group_' = <<OpIdentity>>
               /\ space_group_symmetry_has_been_applied_' = FALSE
               /\ xs_supercell' = [u |-> u, v |-> v, w |-> w, atoms |-> expanded,
                                   crystal_lattice |-> crystal_lattice_]
               /\ xs_error' = ""
    /\ UNCHANGED xs_pc
    /\ UNCHANGED <<sgVars, latVars, csVars, clVars, fmVars, ssVars>>

\* CrystalStructure::collapse_supercell( u, v, w )
collapse_supercell(u, v, w) ==
    /\ xs_pc = "ready"
    /\ atoms_ # <<>>
    /\ u > 0 /\ v > 0 /\ w > 0
    /\ Divisible(crystal_lattice_, u, v, w)
    /\ \E crystal_lattice \in {divided_lattice(crystal_lattice_, u, v, w)} :
          /\ crystal_lattice.a_vector[1] >= MinCellEdge
          /\ crystal_lattice.b_vector[2] >= MinCellEdge
          /\ crystal_lattice.c_vector[3] >= MinCellEdge
          /\ crystal_lattice_' = crystal_lattice
          /\ atoms_' = averaged_atoms(scaled_atoms(atoms_, u, v, w), crystal_lattice, 1, {}, <<>>)
    /\ xs_last' = "collapse_supercell"
    /\ xs_error' = ""
    /\ UNCHANGED <<xs_pc, suppressed_, space_group_, space_group_symmetry_has_been_applied_,
                   xs_supercell>>
    /\ UNCHANGED <<sgVars, latVars, csVars, clVars, fmVars, ssVars>>

(***************************************************************************)
(* The callers' structures: a cubic cell, one of three space groups, and   *)
(* up to two atoms, in general and in special positions.                   *)
(***************************************************************************)
\* P1, P-1 and P2/m with the twofold axis along c
StructureGroups ==
    {<<OpIdentity>>,
     <<OpIdentity, OpInversion>>,
     <<OpIdentity, SymmetryOperator(Rot2z, zero_vector),
       SymmetryOperator(Neg(Rot2z), zero_vector), OpInversion>>}

\* a general position, its image under the inversion, a position on the twofold
\* axis, the origin
StructureAtomChoices ==
    <<Atom("C", Vector3D(1, 2, 3)), Atom("C", Vector3D(3, 2, 1)),
      Atom("C", Vector3D(0, 0, 1)), Atom("O", Vector3D(0, 0, 0))>>

StructureAtomLists ==
    {[i \in DOMAIN chosen |-> StructureAtomChoices[chosen[i]]] :
        chosen \in {c \in UNION {[1..n -> DOMAIN StructureAtomChoices] : n \in 1..2} :
                       \A i, j \in DOMAIN c : i < j => c[i] < c[j]}}

\* the numbers of cells along a, b and c the callers ask for
SupercellSizes == {<<1, 1, 1>>, <<1, 2, 1>>, <<0, 1, 1>>, <<1, 2, 0>>}

InitStructure ==
    /\ xs_pc = "ready"
    /\ xs_last = ""
    /\ xs_error = ""
    /\ atoms_ = <<>>
    /\ suppressed_ = <<>>
    /\ crystal_lattice_ = CubicLattice
    /\ space_group_ \in StructureGroups
    /\ space_group_symmetry_has_been_applied_ = FALSE
    /\ xs_supercell = <<>>
    /\ SGIdle
    /\ LatIdle
    /\ CSIdle
    /\ CLIdle
    /\ FMIdle
    /\ SSIdle

NextStructure ==
    \/ \E atoms \in StructureAtomLists : add_atoms(atoms)
    \/ reduce_to_asymmetric_unit
    \/ apply_space_group_symmetry
    \/ \E size \in SupercellSizes : supercell(size[1], size[2], size[3])
    \/ \E size \in SupercellSizes : collapse_supercell(size[1], size[2], size[3])

SpecStructure == InitStructure /\ [][NextStructure]_vars

(***************************************************************************)
(* Claims about the list of atoms of a CrystalStructure.                   *)
(***************************************************************************)
\* the atoms of the list that are of the element of atom and lie, up to lattice
\* translations, at position
AtomsAt(atoms, element, position) ==
    {n \in 1..Len(atoms) :
        /\ atoms[n].element = element
        /\ adjust_for_translations(atoms[n].position) = adjust_for_translations(position)}

\* C24: after reduce_to_asymmetric_unit followed by apply_space_group_symmetry the
\* list of atoms is exactly the atoms that fill one unit cell: every image under
\* a symmetry operator (up to lattice translations) of each atom of the asymmetric
\* unit occurs exactly once, so that no two atoms lie at the same position, atoms
\* on special positions included.
C24_UnitCellFilledOnce ==
    [][(apply_space_group_symmetry /\ xs_last = "reduce_to_asymmetric_unit") =>
          /\ \A i \in 1..Len(atoms_), k \in 1..Len(space_group_) :
                Cardinality(AtomsAt(atoms_', atoms_[i].element,
                                    OpApply(space_group_[k], atoms_[i].position))) = 1
          /\ \A n \in 1..Len(atoms_') :
                \E i \in 1..Len(atoms_), k \in 1..Len(space_group_) :
                    n \in AtomsAt(atoms_', atoms_[i].element,
                                  OpApply(space_group_[k], atoms_[i].position))]_vars

\* C28: in every state of a CrystalStructure reached through add_atoms,
\* reduce_to_asymmetric_unit, apply_space_group_symmetry, collapse_supercell and
\* supercell, suppressed_ has as many entries as atoms_.
C28_SuppressedSize ==
    xs_pc = "ready" => Len(suppressed_) = Len(atoms_)

\* no two atoms of the list lie within the 0.3 A that collapse_supercell averages over
Separated(atoms, crystal_lattice) ==
    \A i, j \in 1..Len(atoms) :
        i # j => longer_than(shortest_distance(crystal_lattice, atoms[i].position,
                                               atoms[j].position).output_distance2, 3, 10)

\* C30: supercell( u, v, w ) with u, v, w >= 1 followed by collapse_supercell( u, v, w )
\* is a round trip for a structure whose atoms (after the expansion by symmetry)
\* are pairwise farther apart than the averaging threshold: as many atoms as the
\* expanded structure had, at their fractional positions modulo 1, in a cell
\* with the lengths it had; supercell with u, v or w equal to 0 raises an error
\* and leaves the structure as it was.
C30_RoundTrip ==
    [][\A size \in SupercellSizes :
          /\ ( /\ collapse_supercell(size[1], size[2], size[3])
               /\ xs_last = "supercell" /\ xs_error = ""
               /\ <<xs_supercell.u, xs_supercell.v, xs_supercell.w>> = size
               /\ Separated(xs_supercell.atoms, xs_supercell.crystal_lattice) ) =>
                 /\ Len(atoms_') = Len(xs_supercell.atoms)
                 /\ \A n \in 1..Len(xs_supercell.atoms) :
                       atoms_'[n] = Atom(xs_supercell.atoms[n].element,
                                         adjust_for_translations(xs_supercell.atoms[n].position))
                 /\ crystal_lattice_' = xs_supercell.crystal_lattice
          /\ (supercell(size[1], size[2], size[3]) /\ 0 \in {size[1], size[2], size[3]}) =>
                 /\ xs_error' = SupercellMessage
                 /\ UNCHANGED <<atoms_, suppressed_, crystal_lattice_, space_group_,
                                space_group_symmetry_has_been_applied_>>]_vars

\* the four atoms of a general position of P2/m, doubled along b and collapsed
\* again
C30_Witness ==
    /\ xs_last = "collapse_supercell"
    /\ xs_error = ""
    /\ xs_supercell # <<>>
    /\ xs_supercell.v = 2
    /\ Len(xs_supercell.atoms) = 4
    /\ Separated(xs_supercell.atoms, xs_supercell.crystal_lattice)
    /\ Len(atoms_) = 4
    /\ Len(suppressed_) = 8
    /\ crystal_lattice_ = xs_supercell.crystal_lattice
    /\ \A n \in 1..Len(atoms_) :
          atoms_[n].position = adjust_for_translations(xs_supercell.atoms[n].position)

====
